---- MODULE Spec2Model ----
EXTENDS Integers, Sequences, FiniteSets, TLC

(***************************************************************************)
(* Model of the fury typescript-sdk: the transaction co-signing and        *)
(* bundling pipeline (utils: completeTransactionSigning,                   *)
(* prepareTransactionBundles, sendBundle), the operation orchestrators     *)
(* (buy, sell, create, transfer, burn, distribute, consolidate, mix) with  *)
(* the requests they post, the batch orchestrators built on them, the      *)
(* rate limiter (rateLimitState, checkRateLimit) and the FurySDK transfer  *)
(* methods.                                                                *)
(*                                                                         *)
(* Public addresses are the numbers 1 (A), 2 (B), 3 (S, a key only the     *)
(* server holds).  A serialized transaction is a flat sequence of numbers  *)
(*   << nsig, sig_1 .. sig_nsig, K, nkeys, key_1 .. key_nkeys, body >>     *)
(* where a signature slot holds 0 (64 zero bytes, unsigned) or the address *)
(* of the key that produced the signature over this message.               *)
(***************************************************************************)

VARIABLES
    sgBlobs,      \* SpecSign: the base58 transactions handed to the signer
    sgSender,     \* SpecSign: the primary keypair
    sgRegistry,   \* SpecSign: the address -> keypair map
    sgOut,        \* SpecSign: what completeTransactionSigning produced
    pbIn,         \* SpecBundles: the signed transactions to chunk
    pbOut,        \* SpecBundles: what prepareTransactionBundles returned
    op,           \* the orchestrator call in progress: its kind, arguments,
                  \* position, fetched transactions, bundles, results,
                  \* return value and the network calls it has made
    bt,           \* the batch call in progress
    valRet,       \* what a validator called on its own returned
    kpLog,        \* SpecKeys: the calls of createKeypairFromPrivateKey so far
    rl,           \* the rate limiter of one module: rateLimitState, the clock,
                  \* the SDK configuration and the checkRateLimit call in progress
    sdkCall,      \* the FurySDK method called and its arguments
    lim           \* the rate limiters of tokenBuy, tokenSell and create, the
                  \* tasks calling them, the clock and the returns so far

signVars == <<sgBlobs, sgSender, sgRegistry, sgOut>>
bundleVars == <<pbIn, pbOut>>
moreVars == <<kpLog, rl, sdkCall, lim>>
vars == <<sgBlobs, sgSender, sgRegistry, sgOut, pbIn, pbOut, op, bt, valRet, kpLog, rl, sdkCall, lim>>

\* ------------------------------------------------------------------ bounds
MaxSignTxs == 2
MaxBundleTxs == 11
MaxWallets == 2
MaxTxs == 6
MaxRecipients == 7
MaxItems == 3
MaxKeyCalls == 3
MaxClock == 3000
MaxLate == 7
MaxTasks == 2
MaxReturns == 5

\* -------------------------------------------------------------- primitives
Addresses == {1, 2, 3}

Range(s) == {s[i] : i \in DOMAIN s}

Min(a, b) == IF a < b THEN a ELSE b
Max(a, b) == IF a > b THEN a ELSE b

RECURSIVE SeqsUpTo(_, _)
SeqsUpTo(S, n) ==
    IF n = 0 THEN {<<>>}
    ELSE LET shorter == SeqsUpTo(S, n - 1)
         IN  shorter \cup {Append(s, x) : s \in {t \in shorter : Len(t) = n - 1}, x \in S}

\* ------------------------------------------------------------ key material
\* Private key strings: "" (empty), "short" (decodes to 10 bytes), "seed32"
\* (decodes to 32 bytes), "kA"/"kB" (64-byte secret keys of addresses 1, 2).
KeyStrings == {"", "short", "seed32", "kA", "kB"}

DecodedLen(privateKey) ==
    CASE privateKey = ""       -> 0
      [] privateKey = "short"  -> 10
      [] privateKey = "seed32" -> 32
      [] OTHER                 -> 64

AddressOf(privateKey) ==
    CASE privateKey = "kA" -> 1
      [] privateKey = "kB" -> 2
      [] OTHER             -> 0

\* Keypair.fromSecretKey(bs58.decode(privateKey)) throws unless the decoded
\* secret key is a full 64-byte key.
KeypairThrows(privateKey) == DecodedLen(privateKey) # 64

createKeypairFromPrivateKey(privateKey) ==
    [publicKey |-> AddressOf(privateKey), secretKey |-> privateKey]

getWalletAddress(privateKey) == createKeypairFromPrivateKey(privateKey).publicKey

validateWallet(wallet) == wallet.privateKey # ""

\* createKeypairMap: address -> keypair, a later wallet overwriting an earlier
\* one with the same address.  Throws when any wallet's key is malformed.
KeypairMapThrows(wallets) == \E i \in DOMAIN wallets : KeypairThrows(wallets[i].privateKey)

createKeypairMap(wallets) ==
    [a \in {getWalletAddress(wallets[i].privateKey) : i \in DOMAIN wallets} |->
        LET last == CHOOSE i \in DOMAIN wallets :
                      /\ getWalletAddress(wallets[i].privateKey) = a
                      /\ \A j \in DOMAIN wallets :
                            getWalletAddress(wallets[j].privateKey) = a => j <= i
        IN  createKeypairFromPrivateKey(wallets[last].privateKey)]

\* ------------------------------------------------------------- wire format
\* VersionedTransaction.serialize
Serialize(tx) ==
    <<Len(tx.signatures)>> \o tx.signatures
        \o <<tx.numRequiredSignatures, Len(tx.staticAccountKeys)>>
        \o tx.staticAccountKeys \o <<tx.body>>

\* bs58.decode + VersionedTransaction.deserialize: the layout must be
\* complete and the signature count must equal numRequiredSignatures.  The
\* header may ask for more signers than the message has account keys.
WellFormed(blob) ==
    /\ Len(blob) >= 4
    /\ \A i \in DOMAIN blob : blob[i] >= 0
    /\ LET nsig == blob[1]
       IN  /\ Len(blob) >= nsig + 3
           /\ LET k     == blob[nsig + 2]
                  nkeys == blob[nsig + 3]
              IN  /\ Len(blob) = nsig + nkeys + 4
                  /\ nsig = k

Deserialize(blob) ==
    LET nsig  == blob[1]
        nkeys == blob[nsig + 3]
    IN  [signatures            |-> SubSeq(blob, 2, nsig + 1),
         numRequiredSignatures |-> blob[nsig + 2],
         staticAccountKeys     |-> SubSeq(blob, nsig + 4, nsig + 3 + nkeys),
         body                  |-> blob[nsig + nkeys + 4]]

\* staticAccountKeys.slice(0, numRequiredSignatures)
SignerKeys(tx) ==
    SubSeq(tx.staticAccountKeys, 1, Min(tx.numRequiredSignatures, Len(tx.staticAccountKeys)))

\* signerPubkeys.findIndex(pubkey => pubkey.equals(signer.publicKey)) + 1
SignerIndex(tx, address) ==
    IF \E i \in DOMAIN SignerKeys(tx) : SignerKeys(tx)[i] = address
    THEN CHOOSE i \in DOMAIN SignerKeys(tx) :
            /\ SignerKeys(tx)[i] = address
            /\ \A j \in 1..(i - 1) : SignerKeys(tx)[j] # address
    ELSE 0

\* VersionedTransaction.sign(signers): every signer must be one of the first
\* K account keys ("Cannot sign with non signer key"); each signer's slot is
\* overwritten with its signature, the other slots are left as they are.
SignThrows(tx, signers) ==
    \E i \in DOMAIN signers : SignerIndex(tx, signers[i].publicKey) = 0

\* Plausible slips: the slots nobody signed for are reset; a slot that is
\* already filled is emptied instead of signed again.
SignClearing(tx, signers) ==
    [tx EXCEPT !.signatures =
        [i \in DOMAIN tx.signatures |->
            IF \E s \in DOMAIN signers : SignerIndex(tx, signers[s].publicKey) = i
            THEN tx.staticAccountKeys[i]
            ELSE 0]]

SignToggling(tx, signers) ==
    [tx EXCEPT !.signatures =
        [i \in DOMAIN tx.signatures |->
            IF \E s \in DOMAIN signers : SignerIndex(tx, signers[s].publicKey) = i
            THEN IF tx.signatures[i] = 0 THEN tx.staticAccountKeys[i] ELSE 0
            ELSE tx.signatures[i]]]

Sign(tx, signers) ==
    [tx EXCEPT !.signatures =
        [i \in DOMAIN tx.signatures |->
            IF \E s \in DOMAIN signers : SignerIndex(tx, signers[s].publicKey) = i
            THEN tx.staticAccountKeys[i]
            ELSE tx.signatures[i]]]

\* ------------------------------------------------- completeTransactionSigning
\* The keypairs selected for one transaction, in message order.
RECURSIVE SelectSigners(_, _, _)
SelectSigners(signerKeys, senderKeypair, recipientKeypairs) ==
    IF signerKeys = <<>> THEN <<>>
    ELSE LET pubkey == Head(signerKeys)
             rest   == SelectSigners(Tail(signerKeys), senderKeypair, recipientKeypairs)
         IN  IF pubkey = senderKeypair.publicKey
             THEN <<senderKeypair>> \o rest
             ELSE IF pubkey \in DOMAIN recipientKeypairs
                  THEN <<recipientKeypairs[pubkey]>> \o rest
                  ELSE rest

\* A plausible slip: the registry is never consulted.
RequiredSignersSenderOnly(tx, senderKeypair, recipientKeypairs) == <<senderKeypair>>

RequiredSigners(tx, senderKeypair, recipientKeypairs) ==
    LET found == SelectSigners(SignerKeys(tx), senderKeypair, recipientKeypairs)
    IN  IF Len(found) = 0 THEN <<senderKeypair>> ELSE found

SignOneThrows(blob, senderKeypair, recipientKeypairs) ==
    \/ ~WellFormed(blob)
    \/ SignThrows(Deserialize(blob),
                  RequiredSigners(Deserialize(blob), senderKeypair, recipientKeypairs))

SignOne(blob, senderKeypair, recipientKeypairs) ==
    LET tx == Deserialize(blob)
    IN  Serialize(Sign(tx, RequiredSigners(tx, senderKeypair, recipientKeypairs)))

\* The whole call: the first failing transaction makes the call throw.
completeTransactionSigning(blobs, senderKeypair, recipientKeypairs) ==
    IF \E i \in DOMAIN blobs : SignOneThrows(blobs[i], senderKeypair, recipientKeypairs)
    THEN [threw |-> TRUE, txs |-> <<>>]
    ELSE [threw |-> FALSE,
          txs   |-> [i \in DOMAIN blobs |-> SignOne(blobs[i], senderKeypair, recipientKeypairs)]]

\* What transaction.sign received for each transaction the call reached: the
\* call stops at the first transaction that fails.
SignersPassed(blobs, senderKeypair, recipientKeypairs) ==
    [i \in DOMAIN blobs |->
        IF /\ WellFormed(blobs[i])
           /\ \A j \in 1..(i - 1) : ~SignOneThrows(blobs[j], senderKeypair, recipientKeypairs)
        THEN [reached |-> TRUE,
              signers |-> RequiredSigners(Deserialize(blobs[i]), senderKeypair, recipientKeypairs)]
        ELSE [reached |-> FALSE, signers |-> <<>>]]

\* ---------------------------------------------------- transactions the API sends
AccountKeyLists ==
    {<<a>> : a \in Addresses} \cup
    {s \in [1..2 -> Addresses] : s[1] # s[2]}

\* A server-prepared transaction: the first K keys are the required signers,
\* each slot either already signed by its key's holder or left empty; a
\* header may count more signers than there are keys, and the slots past the
\* last key are empty.
ServerTxs ==
    {tx \in [signatures : SeqsUpTo(Addresses \cup {0}, 2), numRequiredSignatures : 0..2,
             staticAccountKeys : AccountKeyLists, body : {7}] :
        /\ Len(tx.signatures) = tx.numRequiredSignatures
        /\ \A i \in DOMAIN tx.signatures :
              IF i <= Len(tx.staticAccountKeys)
              THEN tx.signatures[i] \in {0, tx.staticAccountKeys[i]}
              ELSE tx.signatures[i] = 0}

\* Blobs that do not decode: truncated, and one with a non-base58 character.
MalformedBlobs == {<<1, 0>>, <<0, 1, 1, 1, 0 - 1>>}

TxBlobs == {Serialize(tx) : tx \in ServerTxs} \cup MalformedBlobs

SenderKeypairs == {createKeypairFromPrivateKey(k) : k \in {"kA", "kB"}}

Registries ==
    {createKeypairMap(ws) : ws \in SeqsUpTo({[privateKey |-> k] : k \in {"kA", "kB"}}, 2)}

\* ------------------------------------------------- prepareTransactionBundles
MAX_TRANSACTIONS_PER_BUNDLE == 5

\* signedTransactions.slice(i, i + MAX_TRANSACTIONS_PER_BUNDLE), i zero-based
Slice(txs, i, j) == SubSeq(txs, i + 1, Min(j, Len(txs)))

\* A plausible slip: the slice is one short of the stride.
RECURSIVE BundlesFromShort(_, _)
BundlesFromShort(txs, i) ==
    IF i < Len(txs)
    THEN <<[transactions |-> Slice(txs, i, i + MAX_TRANSACTIONS_PER_BUNDLE - 1)]>>
            \o BundlesFromShort(txs, i + MAX_TRANSACTIONS_PER_BUNDLE)
    ELSE <<>>

\* for (let i = 0; i < signedTransactions.length; i += MAX) bundles.push(...)
RECURSIVE BundlesFrom(_, _)
BundlesFrom(txs, i) ==
    IF i < Len(txs)
    THEN <<[transactions |-> Slice(txs, i, i + MAX_TRANSACTIONS_PER_BUNDLE)]>>
            \o BundlesFrom(txs, i + MAX_TRANSACTIONS_PER_BUNDLE)
    ELSE <<>>

prepareTransactionBundlesShort(signedTransactions) == BundlesFromShort(signedTransactions, 0)

prepareTransactionBundles(signedTransactions) == BundlesFrom(signedTransactions, 0)

RECURSIVE Flatten(_)
Flatten(bundles) ==
    IF bundles = <<>> THEN <<>> ELSE Head(bundles).transactions \o Flatten(Tail(bundles))

CeilDiv(n, d) == (n + d - 1) \div d

\* ------------------------------------------------------------------ values
\* A JavaScript number argument: a number, NaN or undefined.
Num(n) == [nan |-> FALSE, undef |-> FALSE, v |-> n]
NaN == [nan |-> TRUE, undef |-> FALSE, v |-> 0]
Undefined == [nan |-> FALSE, undef |-> TRUE, v |-> 0]

\* Amount strings: "" (missing), "abc", "0", "-1" and the digits "1".."9".
DigitStrings == {ToString(i) : i \in 1..9}
AmountStrings == {"", "abc", "0", "-1"} \cup DigitStrings

\* "9mint" is a 44-character address that begins with the digit 9 and
\* "amount32" the 32-character amount "1.000...0"; parseFloat reads the
\* leading number of a string.
parseFloat(str) ==
    CASE str = "0"  -> Num(0)
      [] str = "-1" -> Num(0 - 1)
      [] str \in DigitStrings -> Num(CHOOSE i \in 1..9 : ToString(i) = str)
      [] str = "9mint" -> Num(9)
      [] str = "amount32" -> Num(1)
      [] OTHER -> NaN

validateAmount(amount) == ~parseFloat(amount).nan /\ parseFloat(amount).v > 0

\* isNaN(x) || x <= 0 || x > 100, for a number argument
OutOfPercentRange(x) == x.nan \/ x.undef \/ (x.v <= 0 \/ x.v > 100)

\* Address strings by length: "" (0), "blank" (3 spaces), "tooShort" (10),
\* "valid" (44), "tooLong" (50).
AddressStrings == {"", "blank", "tooShort", "valid", "tooLong"}

StrLength(str) ==
    CASE str = ""         -> 0
      [] str = "blank"    -> 3
      [] str = "tooShort" -> 10
      [] str = "valid"    -> 44
      [] str = "9mint"    -> 44
      [] str = "amount32" -> 32
      [] str = "abc"      -> 3
      [] str = "-1"       -> 2
      [] str = "0" \/ str \in DigitStrings -> 1
      [] OTHER            -> 50

TrimIsEmpty(str) == str \in {"", "blank"}

BadAddressLength(str) == StrLength(str) < 32 \/ StrLength(str) > 44

supportedProtocols ==
    {"pumpfun", "moonshot", "launchpad", "raydium", "pumpswap", "jupiter", "boopfun"}
supportedPlatforms == {"pump", "moon", "bonk", "cook", "boop"}

\* -------------------------------------------------------------- validators
Valid == [threw |-> FALSE, valid |-> TRUE, error |-> ""]
Invalid(msg) == [threw |-> FALSE, valid |-> FALSE, error |-> msg]
Threw == [threw |-> TRUE, valid |-> FALSE, error |-> "exception"]

\* Index of the first element of a list with property P, 0 when there is none.
FirstWhere(list, P(_)) ==
    IF \E i \in DOMAIN list : P(list[i])
    THEN CHOOSE i \in DOMAIN list : P(list[i]) /\ \A j \in 1..(i - 1) : ~P(list[j])
    ELSE 0

RecipientError(wallet) ==
    IF ~validateWallet(wallet) THEN "Invalid recipient wallet data"
    ELSE IF wallet.amount = "" THEN "Recipient wallet must have an amount specified"
    ELSE IF ~validateAmount(wallet.amount) THEN "Invalid amount"
    ELSE ""

RecipientBad(wallet) == RecipientError(wallet) # ""

RECURSIVE TotalAmount(_)
TotalAmount(wallets) ==
    IF wallets = <<>> THEN 0
    ELSE parseFloat(Head(wallets).amount).v + TotalAmount(Tail(wallets))

\* Amounts and balances are whole SOL here, so totalAmount + 0.01 > balance
\* is totalAmount >= balance.
validateDistributionInputs(senderWallet, recipientWallets, senderBalance) ==
    IF ~validateWallet(senderWallet) THEN Invalid("Invalid sender wallet")
    ELSE IF Len(recipientWallets) = 0 THEN Invalid("No recipient wallets")
    ELSE LET bad == FirstWhere(recipientWallets, RecipientBad)
         IN  IF bad # 0 THEN Invalid(RecipientError(recipientWallets[bad]))
             ELSE IF ~senderBalance.undef /\ ~senderBalance.nan
                        /\ TotalAmount(recipientWallets) >= senderBalance.v
                  THEN Invalid("Insufficient balance")
                  ELSE Valid

\* With sourceBalances given, each source's address is derived (which throws
\* on a malformed key) and its balance must be positive.
SourceOutcome(wallet, withBalances, balances) ==
    IF ~validateWallet(wallet) THEN Invalid("Invalid source wallet data")
    ELSE IF withBalances
         THEN IF KeypairThrows(wallet.privateKey) THEN Threw
              ELSE IF getWalletAddress(wallet.privateKey) \notin balances
                   THEN Invalid("Source wallet has no balance")
                   ELSE Valid
         ELSE Valid

validateConsolidationInputs(sourceWallets, receiverWallet, percentage, withBalances, balances) ==
    IF ~validateWallet(receiverWallet) THEN Invalid("Invalid receiver wallet")
    ELSE IF Len(sourceWallets) = 0 THEN Invalid("No source wallets")
    ELSE LET SourceStops(w) == SourceOutcome(w, withBalances, balances) # Valid
             bad == FirstWhere(sourceWallets, SourceStops)
         IN  IF bad # 0 THEN SourceOutcome(sourceWallets[bad], withBalances, balances)
             ELSE IF OutOfPercentRange(percentage)
                  THEN Invalid("Percentage must be between 1 and 100")
                  ELSE Valid

validateSingleMixingInputs(senderWallet, recipientWallet) ==
    IF ~validateWallet(senderWallet) THEN Invalid("Invalid sender wallet")
    ELSE IF RecipientBad(recipientWallet) THEN Invalid(RecipientError(recipientWallet))
    ELSE Valid

validateTransferInputs(senderWallet, receiverAddress, amount, tokenAddress) ==
    IF ~validateWallet(senderWallet) THEN Invalid("Invalid sender wallet")
    ELSE IF TrimIsEmpty(receiverAddress) THEN Invalid("Receiver address is required")
    ELSE IF BadAddressLength(receiverAddress) THEN Invalid("Invalid receiver address format")
    ELSE IF ~validateAmount(amount) THEN Invalid("Invalid amount")
    ELSE IF tokenAddress # "" /\ BadAddressLength(tokenAddress)
         THEN Invalid("Invalid token address format")
    ELSE Valid

validateBurnInputs(wallet, tokenAddress, amount) ==
    IF ~validateWallet(wallet) THEN Invalid("Invalid wallet")
    ELSE IF TrimIsEmpty(tokenAddress) THEN Invalid("Token address is required")
    ELSE IF BadAddressLength(tokenAddress) THEN Invalid("Invalid token address format")
    ELSE IF ~validateAmount(amount) THEN Invalid("Invalid amount")
    ELSE Valid

TradeWalletError(wallet) ==
    IF ~validateWallet(wallet) THEN "Invalid wallet private key"
    ELSE IF KeypairThrows(wallet.privateKey) THEN "Invalid private key format"
    ELSE ""

TradeWalletBad(wallet) == TradeWalletError(wallet) # ""

TradeWalletsOutcome(wallets) ==
    IF Len(wallets) = 0 THEN Invalid("No wallets provided")
    ELSE LET bad == FirstWhere(wallets, TradeWalletBad)
         IN  IF bad # 0 THEN Invalid(TradeWalletError(wallets[bad])) ELSE Valid

\* tokenConfig.solAmount.toString() throws when solAmount is undefined;
\* validateAmount(String(x)) holds for a number x > 0.
validateTokenBuyInputs(wallets, tokenAddress, solAmount, protocol) ==
    IF tokenAddress = "" THEN Invalid("Invalid token address")
    ELSE IF solAmount.undef THEN Threw
    ELSE IF solAmount.nan \/ solAmount.v <= 0 THEN Invalid("Invalid SOL amount")
    ELSE IF protocol \notin supportedProtocols THEN Invalid("Unsupported protocol")
    ELSE TradeWalletsOutcome(wallets)

\* A plausible slip: the upper end of the percentage range is not checked.
validateTokenSellInputsLax(wallets, tokenAddress, sellPercent, protocol) ==
    IF tokenAddress = "" THEN Invalid("Invalid token address")
    ELSE IF sellPercent.nan \/ sellPercent.undef \/ sellPercent.v <= 0
         THEN Invalid("Invalid sell percentage (must be between 1-100)")
    ELSE IF protocol \notin supportedProtocols THEN Invalid("Unsupported protocol")
    ELSE TradeWalletsOutcome(wallets)

validateTokenSellInputs(wallets, tokenAddress, sellPercent, protocol) ==
    IF tokenAddress = "" THEN Invalid("Invalid token address")
    ELSE IF OutOfPercentRange(sellPercent)
         THEN Invalid("Invalid sell percentage (must be between 1-100)")
    ELSE IF protocol \notin supportedProtocols THEN Invalid("Unsupported protocol")
    ELSE TradeWalletsOutcome(wallets)

\* The wallet cap of validateTokenCreateInputs
MAX_CREATE_WALLETS == 5

CreateWalletBad(wallet) == ~validateWallet(wallet)

\* config.amounts is a number here; NaN and undefined compare false with <= 0.
validateTokenCreateInputs(wallets, platform, metadata, amounts, configWallets) ==
    IF Len(wallets) = 0 THEN Invalid("At least one wallet is required")
    ELSE IF Len(wallets) > MAX_CREATE_WALLETS THEN Invalid("Maximum 5 wallets allowed")
    ELSE IF FirstWhere(wallets, CreateWalletBad) # 0 THEN Invalid("Invalid private key format")
    ELSE IF platform = "" THEN Invalid("Platform is required")
    ELSE IF platform \notin supportedPlatforms THEN Invalid("Unsupported platform")
    ELSE IF metadata = "missing" THEN Invalid("Token metadata is required")
    ELSE IF metadata # "full" THEN Invalid("Token name, symbol, and image are required")
    ELSE IF ~amounts.nan /\ ~amounts.undef /\ amounts.v <= 0
         THEN Invalid("Amount must be greater than 0")
    ELSE IF configWallets = 0 THEN Invalid("At least one wallet address is required")
    ELSE IF configWallets # Len(wallets)
         THEN Invalid("Number of wallet addresses must match number of wallets")
    ELSE Valid

\* ------------------------------------------------- what the network answers
\* The i-th transaction the API prepared, to be signed by one address.
ApiTx(signer, i) ==
    Serialize([signatures |-> <<0>>, numRequiredSignatures |-> 1,
               staticAccountKeys |-> <<signer>>, body |-> i])

\* A transaction whose only signer is a key the caller does not hold.
ForeignTx(i) == ApiTx(3, i)

UndecodableTx == <<1, 0>>

\* Transaction lists of up to MaxTxs entries, at most one of them unsignable.
ApiTxLists(signer) ==
    LET good(n) == [i \in 1..n |-> ApiTx(signer, i)]
    IN  {good(n) : n \in 0..MaxTxs} \cup
        UNION {{[good(p[1]) EXCEPT ![p[2]] = ForeignTx(p[2])],
                [good(p[1]) EXCEPT ![p[2]] = UndecodableTx]} :
                    p \in {q \in (1..MaxTxs) \X (1..MaxTxs) : q[2] <= q[1]}}

\* Short lists, for the per-wallet requests of a custom-percentage sell.
ShortTxLists(signer) ==
    {<<>>, <<ApiTx(signer, 1)>>, <<ApiTx(signer, 1), ApiTx(signer, 2)>>, <<ForeignTx(1)>>}

RECURSIVE ChunkFrom(_, _, _)
ChunkFrom(txs, i, size) ==
    IF i < Len(txs)
    THEN <<[transactions |-> Slice(txs, i, i + size), malformed |-> FALSE]>>
            \o ChunkFrom(txs, i + size, size)
    ELSE <<>>

\* A bundle object without a transactions array
MalformedBundle == [transactions |-> <<>>, malformed |-> TRUE]

\* Bundle sizes the server may choose, one of them above the cap of 5.
ServerBundleSizes == {2, 6}

HttpError == [status |-> "http", shape |-> "none", txs |-> <<>>, bundles |-> <<>>]
Refusal == [status |-> "fail", shape |-> "none", txs |-> <<>>, bundles |-> <<>>]
Body(shape, txs, bundles) == [status |-> "ok", shape |-> shape, txs |-> txs, bundles |-> bundles]

\* The transactions of a response, in the order the API gave them
ResponseTxs(resp) == IF resp.shape = "bundles" THEN Flatten(resp.bundles) ELSE resp.txs

BundleBodies(lists, signer) ==
    {Body("transactions", l, <<>>) : l \in lists} \cup
    {Body("bundles", <<>>, ChunkFrom(l, 0, c)) : l \in lists, c \in ServerBundleSizes} \cup
    {Body("bundles", <<>>, bs) :
        bs \in {<<MalformedBundle>>,
                <<MalformedBundle>> \o ChunkFrom(<<ApiTx(signer, 1)>>, 0, 1),
                ChunkFrom(<<ApiTx(signer, 1)>>, 0, 1) \o <<MalformedBundle>>}}

FetchResponses(kind, signer, short) ==
    {HttpError, Refusal, Body("none", <<>>, <<>>)} \cup
    (CASE kind \in {"distribute", "consolidate", "mix"} ->
            {Body("transactions", l, <<>>) : l \in ApiTxLists(signer)}
       [] kind \in {"transfer", "burn"} ->
            {Body("data", l, <<>>) : l \in ApiTxLists(signer)}
       [] OTHER ->
            BundleBodies(IF short THEN ShortTxLists(signer) ELSE ApiTxLists(signer), signer))

\* Answers of the broadcast endpoint: a non-2xx status, or a 2xx body that
\* is {result: ...}, {success: false, error}, or a JSON-RPC error object.
SendResponses ==
    {[ok |-> FALSE, body |-> "none"]} \cup
    {[ok |-> TRUE, body |-> b] : b \in {"result", "appfail", "rpcerror"}}

\* ---------------------------------------------------------------- sendBundle
\* Throws on a non-2xx status only; every 2xx body is returned as the
\* BundleResult (data.result when present, else the body itself).
sendBundle(response, seq) ==
    IF ~response.ok
    THEN [threw |-> TRUE,  value |-> [shape |-> "none", seq |-> seq, wrapped |-> FALSE]]
    ELSE [threw |-> FALSE, value |-> [shape |-> response.body, seq |-> seq, wrapped |-> FALSE]]

\* ------------------------------------------------- fetching the transactions
maxTransactionsPerBundle == 5

ListKinds == {"distribute", "consolidate", "mix"}
SingleTxKinds == {"transfer", "burn"}
TradeKinds == {"buySingle", "buyBatch", "sellSingle", "sellBatch"}
BundleKinds == TradeKinds \cup {"create"}
OpKinds == ListKinds \cup SingleTxKinds \cup BundleKinds

FetchThrew == [threw |-> TRUE, txs |-> <<>>, bundles |-> <<>>]

\* getDistributeTransactions / getConsolidateTransactions / getMixerTransactions:
\* data.transactions || []
getListTransactions(resp) ==
    IF resp.status # "ok" THEN FetchThrew
    ELSE [threw |-> FALSE, bundles |-> <<>>,
          txs |-> IF resp.shape = "transactions" THEN resp.txs ELSE <<>>]

\* getTransferTransaction / getBurnTransaction: data.data.transactions, non-empty
getSingleTransactions(resp) ==
    IF resp.status # "ok" THEN FetchThrew
    ELSE IF resp.shape # "data" \/ Len(resp.txs) = 0 THEN FetchThrew
    ELSE [threw |-> FALSE, bundles |-> <<>>, txs |-> resp.txs]

\* getTokenBuyTransactions / getTokenSellTransactions / getTokenCreateTransactions
getBundleTransactions(resp) ==
    IF resp.status # "ok" THEN FetchThrew
    ELSE IF resp.shape = "bundles"
         THEN [threw |-> FALSE, txs |-> <<>>, bundles |-> resp.bundles]
    ELSE IF resp.shape = "transactions"
         THEN [threw |-> FALSE, txs |-> <<>>,
               bundles |-> ChunkFrom(resp.txs, 0, maxTransactionsPerBundle)]
    ELSE FetchThrew

getTransactions(kind, resp) ==
    IF kind \in ListKinds THEN getListTransactions(resp)
    ELSE IF kind \in SingleTxKinds THEN getSingleTransactions(resp)
    ELSE getBundleTransactions(resp)

\* ------------------------------------------------------ completeBundleSigning
\* The first wallet is the sender; every wallet is in the keypair map.
BundleSignOutcome(bundle, wallets) ==
    completeTransactionSigning(bundle.transactions,
                               createKeypairFromPrivateKey(wallets[1].privateKey),
                               createKeypairMap(wallets))

BundleSignThrows(bundle, wallets) ==
    ~bundle.malformed /\ BundleSignOutcome(bundle, wallets).threw

completeBundleSigning(bundle, wallets) ==
    IF bundle.malformed
    THEN [transactions |-> <<>>, malformed |-> FALSE]
    ELSE [transactions |-> BundleSignOutcome(bundle, wallets).txs, malformed |-> FALSE]

\* ------------------------------------------------------------ orchestrators
Wallet(privateKey, amount) == [privateKey |-> privateKey, amount |-> amount]

\* Arguments of an orchestrator call.  sender is the sender, the receiver
\* wallet of consolidateSOL, or the wallet of burnToken; number is the
\* percentage, solAmount, sellPercent or amounts; protocol is the protocol or
\* platform; configWallets is config.wallets.length.
NoArguments ==
    [sender |-> Wallet("", ""), wallets |-> <<>>, receiver |-> "", token |-> "",
     amount |-> "", number |-> Num(0), protocol |-> "", metadata |-> "missing",
     configWallets |-> 0, custom |-> <<>>]

Pending ==
    [state |-> "pending", success |-> FALSE, hasResult |-> FALSE, result |-> <<>>, error |-> ""]
Success(results) ==
    [state |-> "returned", success |-> TRUE, hasResult |-> TRUE, result |-> results, error |-> ""]
Failure(msg) ==
    [state |-> "returned", success |-> FALSE, hasResult |-> FALSE, result |-> <<>>, error |-> msg]

OpIdle ==
    [kind |-> "none", pc |-> "idle", in |-> NoArguments, api |-> <<>>, pending |-> <<>>,
     bundles |-> <<>>, idx |-> 0, results |-> <<>>, ret |-> Pending, net |-> <<>>]

\* Entries of the log of network calls and pauses: a request to the API, the
\* call of sendBundle for a bundle, its return or throw, and a delay.
\* The JSON body of a request to the API.  sender is the sender's address
\* (walletPublicKey, senderPublicKey), addresses the walletAddresses or
\* sourceAddresses, receiver the receiver or receiverAddress, number the
\* percentage or solAmount or amounts, custom the per-wallet amounts.
NoPayload ==
    [sender |-> 0, addresses |-> <<>>, recipients |-> <<>>, receiver |-> "",
     tokenAddress |-> "", amount |-> "", number |-> Num(0), protocol |-> "",
     metadata |-> "", configWallets |-> 0, custom |-> <<>>]

\* customPercentages[i] || tokenConfig.sellPercent
Falsy(x) == x.undef \/ x.nan \/ x.v = 0

CustomPercent(in, i) ==
    IF i <= Len(in.custom) /\ ~Falsy(in.custom[i]) THEN in.custom[i] ELSE in.number

WalletAddresses(wallets) ==
    [i \in DOMAIN wallets |-> getWalletAddress(wallets[i].privateKey)]

\* The body of the i-th request an orchestrator posts to the API.
RequestPayload(kind, in, i) ==
    CASE kind = "distribute" ->
            [NoPayload EXCEPT
                !.sender = getWalletAddress(in.sender.privateKey),
                !.recipients =
                    [j \in DOMAIN in.wallets |->
                        [address |-> getWalletAddress(in.wallets[j].privateKey),
                         amount |-> in.wallets[j].amount,
                         hasPrivateKey |-> TRUE,
                         privateKey |-> in.wallets[j].privateKey]]]
      [] kind = "mix" ->
            [NoPayload EXCEPT
                !.sender = getWalletAddress(in.sender.privateKey),
                !.recipients =
                    <<[address |-> getWalletAddress(in.wallets[1].privateKey),
                       amount |-> in.wallets[1].amount,
                       hasPrivateKey |-> FALSE,
                       privateKey |-> ""]>>]
      [] kind = "consolidate" ->
            [NoPayload EXCEPT
                !.addresses = WalletAddresses(in.wallets),
                !.sender = getWalletAddress(in.sender.privateKey),
                !.number = in.number]
      [] kind = "transfer" ->
            [NoPayload EXCEPT
                !.sender = getWalletAddress(in.sender.privateKey),
                !.receiver = in.receiver,
                !.tokenAddress = in.token,
                !.amount = in.amount]
      [] kind = "burn" ->
            [NoPayload EXCEPT
                !.sender = getWalletAddress(in.sender.privateKey),
                !.tokenAddress = in.token,
                !.amount = in.amount]
      [] kind \in {"buySingle", "buyBatch"} ->
            [NoPayload EXCEPT
                !.addresses = WalletAddresses(in.wallets),
                !.tokenAddress = in.token,
                !.protocol = in.protocol,
                !.number = in.number,
                !.custom = in.custom]
      [] kind = "sellSingle" \/ (kind = "sellBatch" /\ Len(in.custom) = 0) ->
            [NoPayload EXCEPT
                !.addresses = WalletAddresses(in.wallets),
                !.tokenAddress = in.token,
                !.protocol = in.protocol,
                !.number = in.number]
      [] kind = "sellBatch" /\ Len(in.custom) > 0 ->
            [NoPayload EXCEPT
                !.addresses = <<getWalletAddress(in.wallets[i].privateKey)>>,
                !.tokenAddress = in.token,
                !.protocol = in.protocol,
                !.number = CustomPercent(in, i)]
      [] OTHER ->
            [NoPayload EXCEPT
                !.protocol = in.protocol,
                !.metadata = in.metadata,
                !.number = in.number,
                !.configWallets = in.configWallets]

FetchEv(payload) ==
    [ev |-> "fetch", bundle |-> 0, txs |-> <<>>, ms |-> 0, arg |-> "", payload |-> payload]
SendEv(i, txs) ==
    [ev |-> "send", bundle |-> i, txs |-> txs, ms |-> 0, arg |-> "", payload |-> NoPayload]
SendRetEv(i, response) ==
    [ev |-> "sendret", bundle |-> i, txs |-> <<>>, ms |-> 0,
     arg |-> IF response.ok THEN response.body ELSE "throw", payload |-> NoPayload]
DelayEv(ms) ==
    [ev |-> "delay", bundle |-> 0, txs |-> <<>>, ms |-> ms, arg |-> "", payload |-> NoPayload]
\* await checkRateLimit() has returned
AcquireEv ==
    [ev |-> "acquire", bundle |-> 0, txs |-> <<>>, ms |-> 0, arg |-> "", payload |-> NoPayload]

SendCount(net) == Cardinality({i \in DOMAIN net : net[i].ev = "send"})
FetchCount(net) == Cardinality({i \in DOMAIN net : net[i].ev = "fetch"})

\* await delay(...) between two bundles of the submission loop
LoopDelay(kind) == IF kind = "create" THEN 100 ELSE 500

\* The BundleResult createTokenSingle records for a bundle that failed
LocalError(i) == [shape |-> "localerror", seq |-> i - 1, wrapped |-> FALSE]

\* The validator an orchestrator belongs to, applied to its arguments.
Validation(kind, in) ==
    CASE kind = "distribute"  -> validateDistributionInputs(in.sender, in.wallets, Undefined)
      [] kind = "consolidate" ->
            validateConsolidationInputs(in.wallets, in.sender, in.number, FALSE, {})
      [] kind = "mix"         -> validateSingleMixingInputs(in.sender, in.wallets[1])
      [] kind = "transfer"    ->
            validateTransferInputs(in.sender, in.receiver, in.amount, in.token)
      [] kind = "burn"        -> validateBurnInputs(in.sender, in.token, in.amount)
      [] kind \in {"buySingle", "buyBatch"} ->
            validateTokenBuyInputs(in.wallets, in.token, in.number, in.protocol)
      [] kind \in {"sellSingle", "sellBatch"} ->
            validateTokenSellInputs(in.wallets, in.token, in.number, in.protocol)
      [] OTHER ->
            validateTokenCreateInputs(in.wallets, in.protocol, in.metadata, in.number,
                                      in.configWallets)

\* Everything an orchestrator does before its first network call; the
\* result is the error it returns, "" when it goes on to the fetch.
\* distributeSOL, consolidateSOL and mixSOLToSingleRecipient only derive the
\* addresses; the others call their validator first.
PreFlight(kind, in) ==
    IF kind \in ListKinds
    THEN IF KeypairThrows(in.sender.privateKey) \/ KeypairMapThrows(in.wallets)
         THEN "exception" ELSE ""
    ELSE IF kind = "create" /\ in.metadata = "missing" THEN "exception"
    ELSE LET validation == Validation(kind, in)
         IN  IF validation.threw \/ ~validation.valid THEN validation.error
             ELSE IF kind \in SingleTxKinds /\ KeypairThrows(in.sender.privateKey)
                  THEN "exception"
             ELSE IF kind \in TradeKinds /\ KeypairMapThrows(in.wallets)
                  THEN "exception"
             ELSE ""

Done(o, ret) == [o EXCEPT !.pc = "done", !.ret = ret]

\* An orchestrator's code up to its first await.  createTokenSingle calls
\* checkRateLimit before its request to the API: pc "acquire" marks a call
\* of checkRateLimit that is about to be made, and is never the state an
\* action ends in.
OpStart(kind, in) ==
    LET o == [OpIdle EXCEPT !.kind = kind, !.in = in]
    IN  IF PreFlight(kind, in) # ""
        THEN Done(o, Failure(PreFlight(kind, in)))
        ELSE IF kind = "create" THEN [o EXCEPT !.pc = "acquire"]
        ELSE [o EXCEPT !.pc = "fetch",
                       !.net = <<FetchEv(RequestPayload(kind, in, 1))>>]

\* checkRateLimit has counted the call and returned: the orchestrator's
\* await checkRateLimit() resumes in a later turn of the event loop.
Counted(o) == [o EXCEPT !.pc = "acquired", !.net = Append(@, AcquireEv)]

\* The orchestrator goes on after await checkRateLimit(): createTokenSingle
\* to its request to the API, buy and sell to
\* sendBundle(bundles[i].transactions).
Granted(o) ==
    IF o.kind = "create"
    THEN [o EXCEPT !.pc = "fetch",
                   !.net = Append(@, FetchEv(RequestPayload(o.kind, o.in, 1)))]
    ELSE [o EXCEPT !.pc = "send",
                   !.net = Append(@, SendEv(o.idx, o.bundles[o.idx].transactions))]

\* The end of a round of the submission loop:
\* if (i < bundles.length - 1) await delay(...), else the loop is over.
Paused(o) ==
    IF o.idx < Len(o.bundles)
    THEN [o EXCEPT !.pc = "pause", !.net = Append(@, DelayEv(LoopDelay(o.kind)))]
    ELSE Done(o, Success(o.results))

\* A plausible slip: the loop sends bundles[0] on every round.
SubmitFromFirst(o, i) ==
    IF i > Len(o.bundles) THEN Done(o, Success(o.results))
    ELSE IF o.kind \in TradeKinds THEN [o EXCEPT !.pc = "acquire", !.idx = i]
    ELSE [o EXCEPT !.pc = "send", !.idx = i,
                   !.net = Append(@, SendEv(i, o.bundles[1].transactions))]

\* Round i of the submission loop, up to its first await: checkRateLimit
\* in buy and sell, sendBundle in the others.  createTokenSingle signs inside
\* the loop and, in a try/catch of its own, records a failed bundle and goes
\* on to the pause before the next one.
SubmitFrom(o, i) ==
    IF i > Len(o.bundles) THEN Done(o, Success(o.results))
    ELSE IF o.kind \in TradeKinds THEN [o EXCEPT !.pc = "acquire", !.idx = i]
    ELSE IF o.kind # "create"
         THEN [o EXCEPT !.pc = "send", !.idx = i,
                        !.net = Append(@, SendEv(i, o.bundles[i].transactions))]
    ELSE IF o.bundles[i].malformed THEN Done(o, Failure("exception"))
    ELSE IF BundleSignThrows(o.bundles[i], o.in.wallets)
         THEN Paused([o EXCEPT !.idx = i, !.results = Append(@, LocalError(i))])
    ELSE [o EXCEPT !.pc = "send", !.idx = i,
                   !.net = Append(@, SendEv(i,
                              completeBundleSigning(o.bundles[i], o.in.wallets).transactions))]

AsBundles(bundles) ==
    [i \in DOMAIN bundles |-> [transactions |-> bundles[i].transactions, malformed |-> FALSE]]

\* From the last fetch's return into the first round of the submission loop.
AfterFetch(o, txs) ==
    IF o.kind \in ListKinds \cup SingleTxKinds
    THEN IF o.kind \in ListKinds /\ KeypairMapThrows(o.in.wallets)
         THEN Done(o, Failure("exception"))
         ELSE LET signed == completeTransactionSigning(txs,
                                createKeypairFromPrivateKey(o.in.sender.privateKey),
                                IF o.kind \in ListKinds
                                THEN createKeypairMap(o.in.wallets) ELSE <<>>)
              IN  IF signed.threw THEN Done(o, Failure("exception"))
                  ELSE SubmitFrom([o EXCEPT !.bundles =
                                      AsBundles(prepareTransactionBundles(signed.txs))], 1)
    ELSE IF o.kind \in TradeKinds
    THEN IF \E i \in DOMAIN o.pending : BundleSignThrows(o.pending[i], o.in.wallets)
         THEN Done(o, Failure("exception"))
         ELSE SubmitFrom([o EXCEPT !.bundles =
                             [i \in DOMAIN o.pending |->
                                 completeBundleSigning(o.pending[i], o.in.wallets)]], 1)
    ELSE IF Len(o.pending) = 0
         THEN Done(o, Failure("No transaction bundles received from backend"))
    ELSE IF KeypairMapThrows(o.in.wallets) THEN Done(o, Failure("exception"))
    ELSE SubmitFrom([o EXCEPT !.bundles = o.pending], 1)

\* sellTokenBatch with customPercentages fetches once per wallet.
MoreToFetch(o) ==
    o.kind = "sellBatch" /\ Len(o.in.custom) > 0 /\ FetchCount(o.net) < Len(o.in.wallets)

\* The return of a request to the API: partiallyPreparedBundles.push(...) in
\* sellTokenBatch's loop over the wallets, the rest of the pipeline otherwise.
OpFetched(o, resp) ==
    LET got == getTransactions(o.kind, resp)
        o1  == [o EXCEPT !.api = @ \o ResponseTxs(resp), !.pending = @ \o got.bundles]
    IN  IF got.threw THEN Done(o, Failure("fetch failed"))
        ELSE IF MoreToFetch(o)
             THEN [o1 EXCEPT !.net = Append(@, FetchEv(RequestPayload(o.kind, o.in,
                                                           FetchCount(o.net) + 1)))]
        ELSE AfterFetch(o1, got.txs)

\* The return of sendBundle, up to the pause before the next bundle or to
\* the orchestrator's return.
OpSent(o, response) ==
    LET sent == sendBundle(response, SendCount(o.net))
        o1   == [o EXCEPT !.net = Append(@, SendRetEv(o.idx, response))]
    IN  IF sent.threw /\ o.kind # "create" THEN Done(o1, Failure("send failed"))
        ELSE Paused([o1 EXCEPT !.results =
                        Append(@, IF sent.threw THEN LocalError(o.idx)
                                  ELSE [sent.value EXCEPT !.wrapped =
                                           o.kind \in {"buyBatch", "sellBatch"}])])

\* The timer of the pause between two bundles fires: the next round.
OpResumed(o) == SubmitFrom(o, o.idx + 1)

\* --------------------------------------------------------- the rate limiter
\* rateLimitState and checkRateLimit of tokenBuy (tokenSell and create hold
\* their own copies of the same code and state).  The clock is Date.now() in
\* milliseconds since the module was loaded.
MAX_BUNDLES_PER_SECOND == 2
WINDOW_MS == 1000

\* Steps of the clock between two calls, and how late a timer may fire.
Ticks == {250, 999}
Lateness == {0, MaxLate}

\* maxBundlesPerSecond values handed to configure
ConfiguredCeilings == {1, 2, 3}

NoCall ==
    [calledAt |-> 0, countBefore |-> 0, elapsed |-> 0, configured |-> 0,
     suspended |-> FALSE, waitTime |-> 0, returned |-> FALSE, returnedAt |-> 0]

\* config is the SDKConfig held by utils (maxBundlesPerSecond, 0 = not set);
\* last describes the latest call of checkRateLimit: when it was made, the
\* count, the age of the window and the configuration it found, whether it
\* was suspended and for how long, and when it returned.
RlStart ==
    [count |-> 0, lastReset |-> 0, maxBundlesPerSecond |-> MAX_BUNDLES_PER_SECOND,
     now |-> 0, config |-> 0, pc |-> "idle", called |-> FALSE, last |-> NoCall]

\* configure(newConfig): config = {...config, ...newConfig}
configure(st, m) == [st EXCEPT !.config = m]

\* A plausible slip: the ceiling is compared with > instead of >=.
checkRateLimitOffByOne(st) ==
    LET now == st.now
        s1  == IF now - st.lastReset >= WINDOW_MS
               THEN [st EXCEPT !.count = 0, !.lastReset = now] ELSE st
        call == [NoCall EXCEPT !.calledAt = now, !.countBefore = st.count,
                               !.elapsed = now - st.lastReset,
                               !.configured = st.config]
    IN  IF s1.count > s1.maxBundlesPerSecond
        THEN [s1 EXCEPT !.pc = "waiting", !.called = TRUE,
                        !.last = [call EXCEPT !.suspended = TRUE,
                                              !.waitTime = WINDOW_MS - (now - s1.lastReset)]]
        ELSE [s1 EXCEPT !.count = @ + 1, !.called = TRUE,
                        !.last = [call EXCEPT !.returned = TRUE, !.returnedAt = now]]

\* checkRateLimit up to its return or to await delay(waitTime)
checkRateLimit(st) ==
    LET now == st.now
        s1  == IF now - st.lastReset >= WINDOW_MS
               THEN [st EXCEPT !.count = 0, !.lastReset = now] ELSE st
        call == [NoCall EXCEPT !.calledAt = now, !.countBefore = st.count,
                               !.elapsed = now - st.lastReset,
                               !.configured = st.config]
    IN  IF s1.count >= s1.maxBundlesPerSecond
        THEN [s1 EXCEPT !.pc = "waiting", !.called = TRUE,
                        !.last = [call EXCEPT !.suspended = TRUE,
                                              !.waitTime = WINDOW_MS - (now - s1.lastReset)]]
        ELSE [s1 EXCEPT !.count = @ + 1, !.called = TRUE,
                        !.last = [call EXCEPT !.returned = TRUE, !.returnedAt = now]]

\* A plausible slip: the count is not cleared after the wait.
checkRateLimitResumeKeeping(st, late) ==
    LET now == st.last.calledAt + st.last.waitTime + late
    IN  [st EXCEPT !.now = now, !.pc = "idle", !.lastReset = now,
                   !.last = [@ EXCEPT !.returned = TRUE, !.returnedAt = now]]

\* The timer of delay(waitTime) fires, late milliseconds after it is due:
\* count = 0; lastReset = Date.now(); count++
checkRateLimitResume(st, late) ==
    LET now == st.last.calledAt + st.last.waitTime + late
    IN  [st EXCEPT !.now = now, !.pc = "idle", !.count = 1, !.lastReset = now,
                   !.last = [@ EXCEPT !.returned = TRUE, !.returnedAt = now]]

\* ------------------------------------------- the limiters and their callers
\* tokenBuy, tokenSell and create each declare a rateLimitState and a
\* checkRateLimit of their own.
Modules == {"buy", "sell", "create"}
Tasks == 1..MaxTasks

rateLimitState ==
    [count |-> 0, lastReset |-> 0, maxBundlesPerSecond |-> MAX_BUNDLES_PER_SECOND]

TaskIdle == [pc |-> "idle", module |-> "none", due |-> 0]

\* A return of checkRateLimit: the module, the time, and lastReset then.
ReturnEntry(m, at, window) == [module |-> m, at |-> at, window |-> window]

LimStart ==
    [state |-> [m \in Modules |-> rateLimitState], now |-> 0,
     task |-> [t \in Tasks |-> TaskIdle],
     callers |-> [m \in Modules |-> {}], log |-> <<>>]

\* A task calls the checkRateLimit of module m: the code up to its return or
\* to await delay(waitTime), run on that module's rateLimitState.
TaskCalls(l, t, m) ==
    LET s == l.state[m]
        r == checkRateLimit([RlStart EXCEPT !.count = s.count, !.lastReset = s.lastReset,
                                            !.maxBundlesPerSecond = s.maxBundlesPerSecond,
                                            !.now = l.now])
        s1 == [s EXCEPT !.count = r.count, !.lastReset = r.lastReset]
        l1 == [l EXCEPT !.state[m] = s1, !.callers[m] = @ \cup {t}]
    IN  IF r.pc = "waiting"
        THEN [l1 EXCEPT !.task[t] = [pc |-> "waiting", module |-> m,
                                     due |-> l.now + r.last.waitTime]]
        ELSE [l1 EXCEPT !.log = Append(@, ReturnEntry(m, l.now, s1.lastReset))]

\* The timer of a suspended task fires, late milliseconds after it is due and
\* never before the present: count = 0; lastReset = Date.now(); count++
TaskResumes(l, t, late) ==
    LET m   == l.task[t].module
        now == Max(l.now, l.task[t].due + late)
    IN  [l EXCEPT !.now = now,
                  !.state[m] = [@ EXCEPT !.count = 1, !.lastReset = now],
                  !.task[t] = TaskIdle,
                  !.log = Append(@, ReturnEntry(m, now, now))]

\* ------------------------------------- the orchestrators and their limiters
\* tokenBuy's orchestrators call tokenBuy's checkRateLimit, tokenSell's call
\* tokenSell's, createTokenSingle calls create's.
ModuleOf(kind) ==
    IF kind \in {"buySingle", "buyBatch"} THEN "buy"
    ELSE IF kind \in {"sellSingle", "sellBatch"} THEN "sell"
    ELSE "create"

\* The task that runs the orchestrator
OpTask == CHOOSE t \in Tasks : \A u \in Tasks : t <= u

\* checkRateLimit() where the orchestrator is about to call it: the call
\* counts and returns at once, or it is suspended in await delay(waitTime).
\* Either way the orchestrator's await gives up the turn.
Settle(o, l) ==
    IF o.pc # "acquire" THEN [op |-> o, lim |-> l]
    ELSE LET l1 == TaskCalls(l, OpTask, ModuleOf(o.kind))
         IN  IF l1.task[OpTask].pc = "waiting"
             THEN [op |-> [o EXCEPT !.pc = "limit"], lim |-> l1]
             ELSE [op |-> Counted(o), lim |-> l1]

\* The clock after d more milliseconds
Later(l, d) == [l EXCEPT !.now = @ + d]

\* How long a request to the API or to the broadcast endpoint takes
NetLatencies == {10}

\* The limiters as earlier operations of the process may have left them:
\* untouched, or every module's window filled by two calls just now.
RECURSIVE CalledBy(_, _, _)
CalledBy(l, ms, n) ==
    IF ms = {} THEN l
    ELSE LET m == CHOOSE x \in ms : TRUE
         IN  IF n = 0 THEN CalledBy(l, ms \ {m}, MAX_BUNDLES_PER_SECOND)
             ELSE CalledBy(TaskCalls(l, OpTask, m), ms, n - 1)

LimLoaded == {LimStart, CalledBy(LimStart, Modules, MAX_BUNDLES_PER_SECOND)}

\* ------------------------------------------------------------- FurySDK methods
NoSdkCall ==
    [method |-> "none", senderWallet |-> Wallet("", ""), recipientAddress |-> "",
     tokenMint |-> "", amount |-> ""]

TransferArguments(senderWallet, receiverAddress, amount, tokenAddress) ==
    [NoArguments EXCEPT !.sender = senderWallet, !.receiver = receiverAddress,
                        !.amount = amount, !.token = tokenAddress]

\* functions/transfer: transferTokens and its convenience wrappers;
\* transferSOL passes no tokenAddress.
transferTokens(senderWallet, receiverAddress, amount, tokenAddress) ==
    OpStart("transfer", TransferArguments(senderWallet, receiverAddress, amount, tokenAddress))

transferSOL(senderWallet, receiverAddress, amount) ==
    transferTokens(senderWallet, receiverAddress, amount, "")

transferToken(senderWallet, receiverAddress, amount, tokenAddress) ==
    transferTokens(senderWallet, receiverAddress, amount, tokenAddress)

\* FurySDK.transferTokens(senderWallet, receiverAddress, amount, tokenAddress)
SdkTransferTokens(senderWallet, receiverAddress, amount, tokenAddress) ==
    transferTokens(senderWallet, receiverAddress, amount, tokenAddress)

\* FurySDK.transferSOL(senderWallet, recipientAddress, amount)
SdkTransferSOL(senderWallet, recipientAddress, amount) ==
    transferSOL(senderWallet, recipientAddress, amount)

\* FurySDK.transferToken(senderWallet, recipientAddress, tokenMint, amount)
\* hands its arguments on in the order it received them.
SdkTransferToken(senderWallet, recipientAddress, tokenMint, amount) ==
    transferToken(senderWallet, recipientAddress, tokenMint, amount)

\* One call of createKeypairFromPrivateKey as the caller sees it
KeypairCall(privateKey) ==
    [privateKey |-> privateKey, threw |-> KeypairThrows(privateKey),
     publicKey |-> IF KeypairThrows(privateKey) THEN 0
                   ELSE createKeypairFromPrivateKey(privateKey).publicKey]

\* ---------------------------------------------------------------- idle parts
NotAgain == [state |-> "pending", threw |-> FALSE, txs |-> <<>>]

SignPending == [state |-> "pending", threw |-> FALSE, txs |-> <<>>,
                passed |-> <<>>, again |-> NotAgain]

SignIdle ==
    /\ sgBlobs = <<>>
    /\ sgSender = createKeypairFromPrivateKey("kA")
    /\ sgRegistry = <<>>
    /\ sgOut = SignPending

BundleIdle ==
    /\ pbIn = <<>>
    /\ pbOut = [state |-> "pending", bundles |-> <<>>]

BtIdle ==
    [kind |-> "none", pc |-> "idle", sender |-> Wallet("", ""), items |-> <<>>, idx |-> 0,
     results |-> <<>>, log |-> <<>>,
     ret |-> [state |-> "pending", success |-> FALSE, hasResults |-> FALSE,
              results |-> <<>>, item |-> 0, error |-> ""]]

ValIdle == [state |-> "pending", kind |-> "none", in |-> NoArguments,
            withBalances |-> FALSE, out |-> Valid]

OthersIdle ==
    /\ op = OpIdle
    /\ bt = BtIdle
    /\ valRet = ValIdle
    /\ kpLog = <<>>
    /\ rl = RlStart
    /\ sdkCall = NoSdkCall

CallsIdle ==
    /\ OthersIdle
    /\ lim = LimStart

\* ------------------------------------------------------------------ SpecSign
SignInit ==
    /\ sgBlobs \in SeqsUpTo(TxBlobs, MaxSignTxs) \ {<<>>}
    /\ sgSender \in SenderKeypairs
    /\ sgRegistry \in Registries
    /\ sgOut = SignPending
    /\ BundleIdle
    /\ CallsIdle

SignCall ==
    /\ sgOut.state = "pending"
    /\ sgBlobs # <<>>
    /\ sgOut' = [state  |-> "returned",
                 passed |-> SignersPassed(sgBlobs, sgSender, sgRegistry),
                 again  |-> NotAgain] @@
                completeTransactionSigning(sgBlobs, sgSender, sgRegistry)
    /\ UNCHANGED <<moreVars, sgBlobs, sgSender, sgRegistry, bundleVars, op, bt, valRet>>

\* The caller hands the signed transactions to completeTransactionSigning once
\* more, with the same sender and registry.
SignAgain ==
    /\ sgOut.state = "returned"
    /\ ~sgOut.threw
    /\ sgOut.again.state = "pending"
    /\ sgOut' = [sgOut EXCEPT !.again =
                    [state |-> "returned"] @@
                    completeTransactionSigning(sgOut.txs, sgSender, sgRegistry)]
    /\ UNCHANGED <<moreVars, sgBlobs, sgSender, sgRegistry, bundleVars, op, bt, valRet>>

SignNext == SignCall \/ SignAgain

SpecSign == SignInit /\ [][SignNext]_vars

\* --------------------------------------------------------------- SpecBundles
\* The signed transactions are tokens 1 and 2, so that a reordering shows.
BundleInit ==
    /\ pbIn \in UNION {[1..n -> {1, 2}] : n \in 0..MaxBundleTxs}
    /\ pbOut = [state |-> "pending", bundles |-> <<>>]
    /\ SignIdle
    /\ CallsIdle

PrepareCall ==
    /\ pbOut.state = "pending"
    /\ pbOut' = [state |-> "returned", bundles |-> prepareTransactionBundles(pbIn)]
    /\ UNCHANGED <<moreVars, pbIn, signVars, op, bt, valRet>>

BundleNext == PrepareCall

SpecBundles == BundleInit /\ [][BundleNext]_vars

\* ---------------------------------------------------------------------- Spec
\* One orchestrator call against an arbitrary remote API.
OpKeyStrings == {"", "short", "kA", "kB"}
SenderWallets == {Wallet(k, "") : k \in OpKeyStrings}
RecipientWallets == {Wallet(k, a) : k \in OpKeyStrings, a \in {"", "abc", "0", "2"}}
Percentages == {NaN, Num(0), Num(50), Num(150)}
Arguments(senders, walletLists, receivers, tokens, amounts, numbers, protocols,
          metadatas, configWallets, customs) ==
    [sender : senders, wallets : walletLists, receiver : receivers, token : tokens,
     amount : amounts, number : numbers, protocol : protocols, metadata : metadatas,
     configWallets : configWallets, custom : customs]

OpInputs(kind) ==
    CASE kind = "distribute" ->
            Arguments(SenderWallets, SeqsUpTo(RecipientWallets, MaxWallets),
                      {""}, {""}, {""}, {Num(0)}, {""}, {"missing"}, {0}, {<<>>})
      [] kind = "consolidate" ->
            Arguments(SenderWallets, SeqsUpTo(SenderWallets, MaxWallets),
                      {""}, {""}, {""}, Percentages, {""}, {"missing"}, {0}, {<<>>})
      [] kind = "mix" ->
            Arguments(SenderWallets, {<<w>> : w \in RecipientWallets},
                      {""}, {""}, {""}, {Num(0)}, {""}, {"missing"}, {0}, {<<>>})
      [] kind = "transfer" ->
            Arguments(SenderWallets, {<<>>}, AddressStrings, {"", "tooShort", "valid"},
                      {"", "abc", "0", "2"}, {Num(0)}, {""}, {"missing"}, {0}, {<<>>})
      [] kind = "burn" ->
            Arguments(SenderWallets, {<<>>}, {""}, AddressStrings,
                      {"", "abc", "0", "2"}, {Num(0)}, {""}, {"missing"}, {0}, {<<>>})
      [] kind \in {"buySingle", "sellSingle"} ->
            Arguments({Wallet("", "")}, {<<w>> : w \in SenderWallets}, {""}, {"", "valid"},
                      {""}, IF kind = "buySingle" THEN {Undefined, Num(0), Num(1)}
                            ELSE Percentages,
                      {"pumpfun", "bogus"}, {"missing"}, {0}, {<<>>})
      [] kind = "buyBatch" ->
            Arguments({Wallet("", "")}, SeqsUpTo(SenderWallets, MaxWallets), {""},
                      {"", "valid"}, {""}, {Undefined, Num(0), Num(1)},
                      {"pumpfun", "bogus"}, {"missing"}, {0}, {<<>>})
      [] kind = "sellBatch" ->
            Arguments({Wallet("", "")}, SeqsUpTo(SenderWallets, MaxWallets), {""},
                      {"", "valid"}, {""}, Percentages, {"pumpfun", "bogus"},
                      {"missing"}, {0}, {<<>>, <<Num(25)>>, <<Num(150), Num(0)>>})
      [] OTHER ->
            Arguments({Wallet("", "")}, SeqsUpTo(SenderWallets, MaxWallets), {""}, {""},
                      {""}, {Num(0), Num(1)}, {"", "bogus", "pump"},
                      {"missing", "partial", "full"}, 0..MaxWallets, {<<>>})

\* The address the API prepares an operation's transactions for.
PrimaryAddress(o) ==
    AddressOf(IF o.kind \in BundleKinds THEN o.in.wallets[1].privateKey
              ELSE o.in.sender.privateKey)

Init ==
    /\ CallsIdle
    /\ SignIdle
    /\ BundleIdle

\* An operation starts in a process whose limiters earlier operations may
\* have used.
OpInit ==
    /\ OthersIdle
    /\ lim \in LimLoaded
    /\ SignIdle
    /\ BundleIdle

otherVars == <<kpLog, rl, sdkCall>>

Start ==
    /\ op.pc = "idle"
    /\ \E kind \in OpKinds : \E in \in OpInputs(kind) :
          /\ op' = Settle(OpStart(kind, in), lim).op
          /\ lim' = Settle(OpStart(kind, in), lim).lim
    /\ UNCHANGED <<otherVars, signVars, bundleVars, bt, valRet>>

FetchReturn ==
    /\ op.pc = "fetch"
    /\ \E resp \in FetchResponses(op.kind, PrimaryAddress(op), Len(op.in.custom) > 0) :
       \E d \in NetLatencies :
          /\ op' = Settle(OpFetched(op, resp), Later(lim, d)).op
          /\ lim' = Settle(OpFetched(op, resp), Later(lim, d)).lim
    /\ UNCHANGED <<otherVars, signVars, bundleVars, bt, valRet>>

SendReturn ==
    /\ op.pc = "send"
    /\ \E response \in SendResponses : \E d \in NetLatencies :
          /\ op' = OpSent(op, response)
          /\ lim' = Later(lim, d)
    /\ UNCHANGED <<otherVars, signVars, bundleVars, bt, valRet>>

\* The timer of await delay(500), delay(100) in createTokenSingle, fires
\* when it is due.
DelayReturn ==
    /\ op.pc = "pause"
    /\ op' = Settle(OpResumed(op), Later(lim, LoopDelay(op.kind))).op
    /\ lim' = Settle(OpResumed(op), Later(lim, LoopDelay(op.kind))).lim
    /\ UNCHANGED <<otherVars, signVars, bundleVars, bt, valRet>>

\* The timer of checkRateLimit's await delay(waitTime) fires: the call is
\* counted and checkRateLimit returns.
LimiterReturn ==
    /\ op.pc = "limit"
    /\ \E late \in Lateness :
          /\ op' = Counted(op)
          /\ lim' = TaskResumes(lim, OpTask, late)
    /\ UNCHANGED <<otherVars, signVars, bundleVars, bt, valRet>>

\* The orchestrator resumes after await checkRateLimit().
AcquireReturn ==
    /\ op.pc = "acquired"
    /\ op' = Granted(op)
    /\ UNCHANGED <<moreVars, signVars, bundleVars, bt, valRet>>

Next ==
    \/ Start
    \/ FetchReturn
    \/ SendReturn
    \/ DelayReturn
    \/ LimiterReturn
    \/ AcquireReturn

Spec == OpInit /\ [][Next]_vars

\* ------------------------------------------------------- batch orchestrators
\* batchDistributeSOL, batchMixSOL, batchTransfer, batchBurnToken.  An item is
\* a recipient wallet, a transfer or a burn.
BatchKinds == {"batchDistribute", "batchMix", "batchTransfer", "batchBurn"}

\* createTokenBatch is a loop of the same shape over configurations; it
\* records a failed configuration and goes on.
AllBatchKinds == BatchKinds \cup {"batchCreate"}

MAX_RECIPIENTS_PER_BATCH == 3

InnerKind(kind) ==
    CASE kind = "batchDistribute" -> "distribute"
      [] kind = "batchMix"        -> "mix"
      [] kind = "batchTransfer"   -> "transfer"
      [] kind = "batchCreate"     -> "create"
      [] OTHER                    -> "burn"

ItemWallets(items) ==
    [i \in DOMAIN items |-> Wallet(items[i].privateKey, items[i].amount)]

\* A plausible slip: the slice ends one early.
GroupShort(items, i) ==
    ItemWallets(Slice(items, (i - 1) * MAX_RECIPIENTS_PER_BATCH,
                             i * MAX_RECIPIENTS_PER_BATCH - 1))

\* recipientWallets.slice(i, i + MAX_RECIPIENTS_PER_BATCH), the i-th group
Group(items, i) ==
    ItemWallets(Slice(items, (i - 1) * MAX_RECIPIENTS_PER_BATCH,
                             i * MAX_RECIPIENTS_PER_BATCH))

\* With at most 3 recipients batchDistributeSOL makes one direct call.
DirectCall(b) ==
    b.kind = "batchDistribute" /\ Len(b.items) <= MAX_RECIPIENTS_PER_BATCH

NumCycles(b) ==
    IF b.kind = "batchDistribute"
    THEN CeilDiv(Len(b.items), MAX_RECIPIENTS_PER_BATCH)
    ELSE Len(b.items)

\* The wallets handed to the i-th call of the inner orchestrator
CycleWallets(b, i) ==
    CASE b.kind = "batchDistribute" ->
            IF DirectCall(b) THEN ItemWallets(b.items) ELSE Group(b.items, i)
      [] b.kind = "batchMix" -> ItemWallets(<<b.items[i]>>)
      [] b.kind = "batchCreate" -> <<Wallet(b.items[i].privateKey, "")>>
      [] OTHER -> <<>>

\* A configuration of createTokenBatch is one wallet and a config for the
\* pump platform with full metadata, one wallet address and the item's
\* amount as its amounts.
CycleArguments(b, i) ==
    IF b.kind \in {"batchDistribute", "batchMix"}
    THEN [NoArguments EXCEPT !.sender = b.sender, !.wallets = CycleWallets(b, i)]
    ELSE IF b.kind = "batchCreate"
    THEN [NoArguments EXCEPT !.wallets = CycleWallets(b, i), !.protocol = "pump",
                             !.metadata = "full",
                             !.number = parseFloat(b.items[i].amount),
                             !.configWallets = 1]
    ELSE [NoArguments EXCEPT !.sender = b.sender,
                             !.receiver = IF b.kind = "batchTransfer"
                                          THEN b.items[i].receiver ELSE "",
                             !.amount = b.items[i].amount,
                             !.token = b.items[i].token]

\* await delay(...) between two items
BatchDelay(kind) ==
    IF kind \in {"batchDistribute", "batchMix"} THEN 3000
    ELSE IF kind = "batchCreate" THEN 500
    ELSE 1000

CallEv(i, wallets) ==
    [ev |-> "call", item |-> i, wallets |-> wallets, ms |-> 0, ret |-> Pending]
ReturnEv(i, ret) ==
    [ev |-> "return", item |-> i, wallets |-> <<>>, ms |-> 0, ret |-> ret]
PauseEv(ms) ==
    [ev |-> "delay", item |-> 0, wallets |-> <<>>, ms |-> ms, ret |-> Pending]

BatchSuccess(results) ==
    [state |-> "returned", success |-> TRUE, hasResults |-> TRUE, results |-> results,
     item |-> 0, error |-> ""]
BatchThrown ==
    [state |-> "returned", success |-> FALSE, hasResults |-> FALSE, results |-> <<>>,
     item |-> 0, error |-> "exception"]

\* A plausible slip: the results collected so far are dropped.
ItemFailedLossy(b, o) ==
    [state |-> "returned", success |-> FALSE, hasResults |-> TRUE, results |-> <<>>,
     item |-> IF DirectCall(b) THEN 0 ELSE b.idx, error |-> o.ret.error]

\* if (!result.success) return {success: false, results, error}; the direct
\* call of batchDistributeSOL returns results: [] and the inner error as it is.
ItemFailed(b, o) ==
    [state |-> "returned", success |-> FALSE, hasResults |-> TRUE,
     results |-> IF DirectCall(b) THEN <<>> ELSE b.results,
     item |-> IF DirectCall(b) THEN 0 ELSE b.idx, error |-> o.ret.error]

BatchDone(b, ret) == [b EXCEPT !.pc = "done", !.ret = ret]

\* The batch loop after a step of the inner orchestrator, r its state and
\* the limiters': when the inner call has returned, the result is recorded
\* and the loop pauses before the next item or returns.  The four fail-fast
\* loops return at the first failed item; createTokenBatch pushes [] for a
\* failed configuration and goes on.
BatchAdvance(b, r) ==
    IF r.op.pc # "done" THEN [bt |-> b, op |-> r.op, lim |-> r.lim]
    ELSE LET o  == r.op
             b1 == [b EXCEPT !.log = Append(@, ReturnEv(b.idx, o.ret))]
         IN  IF ~o.ret.success /\ b.kind \in BatchKinds
             THEN [bt |-> BatchDone(b1, ItemFailed(b1, o)), op |-> o, lim |-> r.lim]
             ELSE LET b2 == [b1 EXCEPT !.results =
                                Append(@, IF o.ret.success THEN o.ret.result ELSE <<>>)]
                  IN  IF b.idx < NumCycles(b)
                      THEN [bt |-> [b2 EXCEPT !.pc = "pause",
                                              !.log = Append(@, PauseEv(BatchDelay(b.kind)))],
                            op |-> o, lim |-> r.lim]
                      ELSE [bt |-> BatchDone(b2, BatchSuccess(b2.results)),
                            op |-> o, lim |-> r.lim]

\* Item b.idx starts.  batchMixSOL derives the recipient's address in the
\* loop, before the call and outside any result handling: a malformed key
\* ends in the outer catch.
BatchBegin(b, o, l) ==
    IF b.kind = "batchMix" /\ KeypairThrows(b.items[b.idx].privateKey)
    THEN [bt |-> BatchDone(b, BatchThrown), op |-> o, lim |-> l]
    ELSE BatchAdvance([b EXCEPT !.log = Append(@, CallEv(b.idx, CycleWallets(b, b.idx)))],
                      Settle(OpStart(InnerKind(b.kind), CycleArguments(b, b.idx)), l))

BatchCall(kind, sender, items, l) ==
    LET b == [BtIdle EXCEPT !.kind = kind, !.sender = sender, !.items = items]
    IN  IF Len(items) = 0
        THEN [bt |-> BatchDone(b, BatchSuccess(<<>>)), op |-> OpIdle, lim |-> l]
        ELSE BatchBegin([b EXCEPT !.pc = "running", !.idx = 1], OpIdle, l)

\* The timer of the pause between two items fires: the next item starts.
BatchResumed(b, o, l) == BatchBegin([b EXCEPT !.pc = "running", !.idx = @ + 1], o, l)

\* ----------------------------------------------------------------- SpecBatch
\* One batch call.  Item i carries the amount i, so that items can be told
\* apart; at most one item is bad: a malformed key and a short receiver
\* address, or an amount that is not a number.
Item(i) == [privateKey |-> "kB", amount |-> ToString(i), receiver |-> "valid",
            token |-> "valid"]

BadItem(i, variant) ==
    IF variant = 1
    THEN [Item(i) EXCEPT !.privateKey = "short", !.receiver = "tooShort"]
    ELSE [Item(i) EXCEPT !.amount = "abc"]

ItemLists(max) ==
    {[i \in 1..n |-> Item(i)] : n \in 0..max} \cup
    UNION {{[i \in 1..p[1] |-> IF i = p[2] THEN BadItem(i, 1) ELSE Item(i)],
            [i \in 1..p[1] |-> IF i = p[2] THEN BadItem(i, 2) ELSE Item(i)]} :
                p \in {q \in (1..max) \X (1..max) : q[2] <= q[1]}}

BatchItemLists(kind) ==
    IF kind = "batchDistribute" THEN ItemLists(MaxRecipients) ELSE ItemLists(MaxItems)

BatchSenders == {Wallet("kA", ""), Wallet("short", "")}

\* createTokenBatch takes no sender.
BatchSendersOf(kind) == IF kind = "batchCreate" THEN {Wallet("", "")} ELSE BatchSenders

\* The API answers an item with a refusal, one transaction or six.
BatchFetchResponses(o) ==
    {Refusal} \cup
    {Body(IF o.kind \in SingleTxKinds THEN "data" ELSE "transactions",
          [i \in 1..n |-> ApiTx(PrimaryAddress(o), i)], <<>>) : n \in {1, MaxTxs}}

BatchSendResponses ==
    {[ok |-> FALSE, body |-> "none"]} \cup
    {[ok |-> TRUE, body |-> b] : b \in {"result", "appfail"}}

BatchInit ==
    /\ OthersIdle
    /\ lim \in LimLoaded
    /\ SignIdle
    /\ BundleIdle

BatchStart ==
    /\ bt.pc = "idle"
    /\ \E kind \in AllBatchKinds : \E sender \in BatchSendersOf(kind) :
          \E items \in BatchItemLists(kind) :
             /\ bt' = BatchCall(kind, sender, items, lim).bt
             /\ op' = BatchCall(kind, sender, items, lim).op
             /\ lim' = BatchCall(kind, sender, items, lim).lim
    /\ UNCHANGED <<otherVars, signVars, bundleVars, valRet>>

BatchFetchReturn ==
    /\ bt.pc = "running"
    /\ op.pc = "fetch"
    /\ \E resp \in BatchFetchResponses(op) : \E d \in NetLatencies :
          LET r == BatchAdvance(bt, Settle(OpFetched(op, resp), Later(lim, d)))
          IN  /\ bt' = r.bt
              /\ op' = r.op
              /\ lim' = r.lim
    /\ UNCHANGED <<otherVars, signVars, bundleVars, valRet>>

BatchSendReturn ==
    /\ bt.pc = "running"
    /\ op.pc = "send"
    /\ \E response \in BatchSendResponses : \E d \in NetLatencies :
          LET r == BatchAdvance(bt, [op |-> OpSent(op, response), lim |-> Later(lim, d)])
          IN  /\ bt' = r.bt
              /\ op' = r.op
              /\ lim' = r.lim
    /\ UNCHANGED <<otherVars, signVars, bundleVars, valRet>>

\* The timer of the inner orchestrator's pause between two bundles fires.
BatchDelayReturn ==
    /\ bt.pc = "running"
    /\ op.pc = "pause"
    /\ LET r == BatchAdvance(bt, Settle(OpResumed(op), Later(lim, LoopDelay(op.kind))))
       IN  /\ bt' = r.bt
           /\ op' = r.op
           /\ lim' = r.lim
    /\ UNCHANGED <<otherVars, signVars, bundleVars, valRet>>

\* The timer of checkRateLimit's wait in createTokenSingle fires.
BatchLimiterReturn ==
    /\ bt.pc = "running"
    /\ op.pc = "limit"
    /\ \E late \in Lateness :
          /\ op' = Counted(op)
          /\ lim' = TaskResumes(lim, OpTask, late)
    /\ UNCHANGED <<otherVars, signVars, bundleVars, bt, valRet>>

\* createTokenSingle resumes after await checkRateLimit().
BatchAcquireReturn ==
    /\ bt.pc = "running"
    /\ op.pc = "acquired"
    /\ op' = Granted(op)
    /\ UNCHANGED <<moreVars, signVars, bundleVars, bt, valRet>>

\* The timer of await delay(3000), delay(1000) or delay(500) between two
\* items fires.
BatchPauseReturn ==
    /\ bt.pc = "pause"
    /\ LET r == BatchResumed(bt, op, Later(lim, BatchDelay(bt.kind)))
       IN  /\ bt' = r.bt
           /\ op' = r.op
           /\ lim' = r.lim
    /\ UNCHANGED <<otherVars, signVars, bundleVars, valRet>>

BatchNext ==
    \/ BatchStart
    \/ BatchFetchReturn
    \/ BatchSendReturn
    \/ BatchDelayReturn
    \/ BatchLimiterReturn
    \/ BatchAcquireReturn
    \/ BatchPauseReturn

SpecBatch == BatchInit /\ [][BatchNext]_vars

\* ------------------------------------------------------------------ SpecKeys
\* A caller derives keypairs from private key strings.
CreateKeypair ==
    /\ Len(kpLog) < MaxKeyCalls
    /\ \E privateKey \in KeyStrings : kpLog' = Append(kpLog, KeypairCall(privateKey))
    /\ UNCHANGED <<signVars, bundleVars, op, bt, valRet, rl, sdkCall, lim>>

KeysNext == CreateKeypair

SpecKeys == Init /\ [][KeysNext]_vars

\* --------------------------------------------------------------- SpecLimiter
\* One sequential caller of checkRateLimit, the clock, and configure.
Configure ==
    /\ \E m \in ConfiguredCeilings : rl' = configure(rl, m)
    /\ UNCHANGED <<signVars, bundleVars, op, bt, valRet, kpLog, sdkCall, lim>>

Tick ==
    /\ rl.pc = "idle"
    /\ \E dt \in Ticks : /\ rl.now + dt <= MaxClock
                         /\ rl' = [rl EXCEPT !.now = @ + dt]
    /\ UNCHANGED <<signVars, bundleVars, op, bt, valRet, kpLog, sdkCall, lim>>

CheckRateLimitCall ==
    /\ rl.pc = "idle"
    /\ rl.now + WINDOW_MS + MaxLate <= MaxClock
    /\ rl' = checkRateLimit(rl)
    /\ UNCHANGED <<signVars, bundleVars, op, bt, valRet, kpLog, sdkCall, lim>>

CheckRateLimitResume ==
    /\ rl.pc = "waiting"
    /\ \E late \in Lateness : rl' = checkRateLimitResume(rl, late)
    /\ UNCHANGED <<signVars, bundleVars, op, bt, valRet, kpLog, sdkCall, lim>>

LimiterNext == Configure \/ Tick \/ CheckRateLimitCall \/ CheckRateLimitResume

SpecLimiter == Init /\ [][LimiterNext]_vars

\* A pending timer fires: the event loop runs the callback of setTimeout.
SpecLimiterLive == SpecLimiter /\ WF_vars(CheckRateLimitResume)

\* ----------------------------------------------------------- SpecLimiterTasks
\* Tasks of one process, scheduled cooperatively, call the limiters of the
\* three modules; the clock moves between their steps, never past a timer
\* that is due.
Waiting(l) == {t \in Tasks : l.task[t].pc = "waiting"}

\* The clock steps between two steps of the tasks: three quarters of a window.
LimTicks == {750}

LimTick ==
    /\ \E d \in LimTicks :
          /\ lim.now + d <= MaxClock
          /\ \A t \in Waiting(lim) : lim.now + d <= lim.task[t].due
          /\ lim' = [lim EXCEPT !.now = @ + d]
    /\ UNCHANGED <<signVars, bundleVars, op, bt, valRet, kpLog, rl, sdkCall>>

LimCall ==
    /\ Len(lim.log) + Cardinality(Waiting(lim)) < MaxReturns
    /\ lim.now + WINDOW_MS + MaxLate <= MaxClock
    /\ \E t \in Tasks, m \in Modules :
          /\ lim.task[t].pc = "idle"
          /\ lim' = TaskCalls(lim, t, m)
    /\ UNCHANGED <<signVars, bundleVars, op, bt, valRet, kpLog, rl, sdkCall>>

\* Timers fire in the order in which they are due.
LimResume ==
    /\ \E t \in Waiting(lim), late \in Lateness :
          /\ \A u \in Waiting(lim) : lim.task[t].due <= lim.task[u].due
          /\ lim' = TaskResumes(lim, t, late)
    /\ UNCHANGED <<signVars, bundleVars, op, bt, valRet, kpLog, rl, sdkCall>>

LimiterTasksNext == LimTick \/ LimCall \/ LimResume

SpecLimiterTasks == Init /\ [][LimiterTasksNext]_vars

\* ------------------------------------------------------------ SpecSdkTransfer
\* One call of FurySDK.transferToken, FurySDK.transferTokens or
\* FurySDK.transferSOL, to its return.
SdkSenders == {Wallet(k, "") : k \in {"short", "kA", "kB"}}
SdkRecipients == {"tooShort", "valid"}
SdkMints == {"", "tooShort", "valid", "9mint"}
SdkAmounts == {"", "abc", "2", "amount32"}

CallTransferToken ==
    /\ op.pc = "idle"
    /\ \E senderWallet \in SdkSenders, recipientAddress \in SdkRecipients,
          tokenMint \in SdkMints, amount \in SdkAmounts :
          /\ sdkCall' = [method |-> "transferToken", senderWallet |-> senderWallet,
                         recipientAddress |-> recipientAddress, tokenMint |-> tokenMint,
                         amount |-> amount]
          /\ op' = SdkTransferToken(senderWallet, recipientAddress, tokenMint, amount)
    /\ UNCHANGED <<signVars, bundleVars, bt, valRet, kpLog, rl, lim>>

CallTransferTokens ==
    /\ op.pc = "idle"
    /\ \E senderWallet \in SdkSenders, recipientAddress \in SdkRecipients,
          tokenMint \in SdkMints, amount \in SdkAmounts :
          /\ sdkCall' = [method |-> "transferTokens", senderWallet |-> senderWallet,
                         recipientAddress |-> recipientAddress, tokenMint |-> tokenMint,
                         amount |-> amount]
          /\ op' = SdkTransferTokens(senderWallet, recipientAddress, amount, tokenMint)
    /\ UNCHANGED <<signVars, bundleVars, bt, valRet, kpLog, rl, lim>>

CallTransferSOL ==
    /\ op.pc = "idle"
    /\ \E senderWallet \in SdkSenders, recipientAddress \in SdkRecipients,
          amount \in SdkAmounts :
          /\ sdkCall' = [method |-> "transferSOL", senderWallet |-> senderWallet,
                         recipientAddress |-> recipientAddress, tokenMint |-> "",
                         amount |-> amount]
          /\ op' = SdkTransferSOL(senderWallet, recipientAddress, amount)
    /\ UNCHANGED <<signVars, bundleVars, bt, valRet, kpLog, rl, lim>>

SdkTransferNext ==
    \/ CallTransferToken
    \/ CallTransferTokens
    \/ CallTransferSOL
    \/ FetchReturn
    \/ SendReturn
    \/ DelayReturn

SpecSdkTransfer == Init /\ [][SdkTransferNext]_vars

\* -------------------------------------------------------------- SpecValidate
\* One call of a validator on its own, as the SDK's validate* methods make it.
ValidatorKinds ==
    {"distribute", "consolidate", "mix", "transfer", "burn", "buyBatch", "sellBatch",
     "create"}

\* Addresses that have a positive balance in sourceBalances
BalanceMaps == {{}, {1}, {1, 2}}

ValidatorOutcome(kind, in, withBalances, balances) ==
    IF kind = "consolidate"
    THEN validateConsolidationInputs(in.wallets, in.sender, in.number, withBalances, balances)
    ELSE Validation(kind, in)

ValidateInit ==
    /\ CallsIdle
    /\ SignIdle
    /\ BundleIdle

ValidateCall ==
    /\ valRet.state = "pending"
    /\ \E kind \in ValidatorKinds : \E in \in OpInputs(kind) :
          \E withBalances \in (IF kind = "consolidate" THEN BOOLEAN ELSE {FALSE}) :
             \E balances \in (IF withBalances THEN BalanceMaps ELSE {{}}) :
                valRet' = [state |-> "returned", kind |-> kind, in |-> in,
                           withBalances |-> withBalances,
                           out |-> ValidatorOutcome(kind, in, withBalances, balances)]
    /\ UNCHANGED <<moreVars, signVars, bundleVars, op, bt>>

ValidateNext == ValidateCall

SpecValidate == ValidateInit /\ [][ValidateNext]_vars

\* ==================================================================== claims

\* C1: completeTransactionSigning never returns an under-signed transaction
\* as a success: when some transaction has, among its first K account keys,
\* an address that is neither the primary keypair's nor a key of the registry
\* and whose slot the server left unsigned, the call throws.
HasUnresolvableSlot(blob, senderKeypair, recipientKeypairs) ==
    /\ WellFormed(blob)
    /\ LET tx == Deserialize(blob)
       IN  \E i \in DOMAIN SignerKeys(tx) :
              /\ tx.staticAccountKeys[i] # senderKeypair.publicKey
              /\ tx.staticAccountKeys[i] \notin DOMAIN recipientKeypairs
              /\ tx.signatures[i] = 0

C1_UnderSignedThrows ==
    (/\ sgOut.state = "returned"
     /\ \E i \in DOMAIN sgBlobs : HasUnresolvableSlot(sgBlobs[i], sgSender, sgRegistry))
        => sgOut.threw

\* C7: prepareTransactionBundles returns ceil(n/5) bundles, all but the last
\* of exactly 5 transactions, the last of 1..5, whose concatenation is the
\* input; the empty list gives the empty list.
C7_Chunking ==
    pbOut.state = "returned" =>
        LET n == Len(pbIn)
            out == pbOut.bundles
        IN  /\ Len(out) = CeilDiv(n, MAX_TRANSACTIONS_PER_BUNDLE)
            /\ \A b \in 1..(Len(out) - 1) :
                  Len(out[b].transactions) = MAX_TRANSACTIONS_PER_BUNDLE
            /\ Len(out) > 0 =>
                  Len(out[Len(out)].transactions) \in 1..MAX_TRANSACTIONS_PER_BUNDLE
            /\ Flatten(out) = pbIn
            /\ (n = 0 => out = <<>>)

\* Three bundles, the last one short, have been returned.
C7_Witness ==
    /\ pbOut.state = "returned"
    /\ Len(pbIn) = 11
    /\ Len(pbOut.bundles) = 3
    /\ Len(pbOut.bundles[3].transactions) = 1

\* --------------------------------------------- reading the log of an operation
IsSend(e) == e.ev = "send"
IsSendRet(e) == e.ev = "sendret"
Sends(net) == SelectSeq(net, IsSend)
SendRets(net) == SelectSeq(net, IsSendRet)

RECURSIVE ConcatTxs(_)
ConcatTxs(events) ==
    IF events = <<>> THEN <<>> ELSE Head(events).txs \o ConcatTxs(Tail(events))

\* The transactions handed to sendBundle, concatenated in call order
SentTransactions(net) == ConcatTxs(Sends(net))

IsPrefix(a, b) == Len(a) <= Len(b) /\ SubSeq(b, 1, Len(a)) = a

NoSendThrew(net) == \A p \in DOMAIN net : net[p].ev = "sendret" => net[p].arg # "throw"

\* Between two calls of sendBundle the earlier one has returned.
Sequential(net) ==
    \A p \in DOMAIN net : \A q \in DOMAIN net :
        (p < q /\ net[p].ev = "send" /\ net[q].ev = "send") =>
            \E r \in (p + 1)..(q - 1) :
                net[r].ev = "sendret" /\ net[r].bundle = net[p].bundle

OpSender(o) ==
    createKeypairFromPrivateKey(IF o.kind \in BundleKinds THEN o.in.wallets[1].privateKey
                                ELSE o.in.sender.privateKey)

OpRegistry(o) ==
    IF o.kind \in SingleTxKinds THEN <<>> ELSE createKeypairMap(o.in.wallets)

\* The signed form of a transaction the API returned; <<>> stands for a
\* transaction that has none because signing it throws.
SignedForm(o, blob) ==
    IF SignOneThrows(blob, OpSender(o), OpRegistry(o)) THEN <<>>
    ELSE SignOne(blob, OpSender(o), OpRegistry(o))

SignedApiSequence(o) == [i \in DOMAIN o.api |-> SignedForm(o, o.api[i])]

\* ------------------------------------------------------------------------ C2
\* C2: in every orchestrator, create included, a throw of sendBundle for
\* bundle i is the last thing the operation does on the network (no later
\* bundle, no retry) and the orchestrator returns {success:false, error}
\* without results.
C2_SendThrowAbortsEverywhere ==
    \A p \in DOMAIN op.net :
        (op.net[p].ev = "sendret" /\ op.net[p].arg = "throw") =>
            /\ p = Len(op.net)
            /\ op.pc = "done"
            /\ op.ret.state = "returned" /\ ~op.ret.success /\ ~op.ret.hasResult

\* ------------------------------------------------------------------------ C3
\* C3: a 2xx answer {success:false, error} of the broadcast endpoint aborts
\* the operation like a transport error: it is the last network event, no
\* later bundle is sent, and the orchestrator returns success:false.
C3_LogicalFailureAborts ==
    \A p \in DOMAIN op.net :
        (op.net[p].ev = "sendret" /\ op.net[p].arg = "appfail") =>
            /\ p = Len(op.net)
            /\ op.pc = "done"
            /\ op.ret.state = "returned" /\ ~op.ret.success

\* ------------------------------------------------------------------------ C4
\* C4: an orchestrator called with arguments its own validator rejects makes
\* no network call and returns success:false.
C4_RejectedInputsStayLocal ==
    (/\ op.kind # "none"
     /\ (Validation(op.kind, op.in).threw \/ ~Validation(op.kind, op.in).valid)) =>
        /\ op.net = <<>>
        /\ op.pc = "done"
        /\ op.ret.state = "returned" /\ ~op.ret.success

\* ------------------------------------------------------------------------ C5
\* C5: while no send has thrown, the transactions passed to
\* sendBundle, concatenated in call order, are position by position the
\* signed forms of the transactions the API returned: a prefix of them while
\* the operation runs, all of them once it has returned success; and a send
\* starts only after the one before it has returned.
C5_SentIsSignedApiSequence ==
    NoSendThrew(op.net) =>
        /\ IsPrefix(SentTransactions(op.net), SignedApiSequence(op))
        /\ (op.pc = "done" /\ op.ret.success =>
                SentTransactions(op.net) = SignedApiSequence(op))
        /\ Sequential(op.net)

\* ------------------------------------------------------------------------ C6
\* C6: distribute, consolidate, mix, transfer and burn, having returned
\* success for n transactions of the API, have called sendBundle ceil(n/5)
\* times, once for each assembled bundle in order, and return one result per
\* bundle, result i being the answer to the i-th send.
C6_OneSendAndOneResultPerBundle ==
    (op.kind \in ListKinds \cup SingleTxKinds /\ op.pc = "done" /\ op.ret.success) =>
        LET sends == Sends(op.net)
            rets  == SendRets(op.net)
        IN  /\ Len(sends) = CeilDiv(Len(op.api), MAX_TRANSACTIONS_PER_BUNDLE)
            /\ Len(sends) = Len(op.bundles)
            /\ \A i \in DOMAIN sends :
                  sends[i].bundle = i /\ sends[i].txs = op.bundles[i].transactions
            /\ Len(op.ret.result) = Len(sends)
            /\ Len(rets) = Len(sends)
            /\ \A i \in DOMAIN op.ret.result :
                  /\ op.ret.result[i].seq = i
                  /\ op.ret.result[i].shape = rets[i].arg
                  /\ rets[i].bundle = i

\* burnToken has returned success for six transactions: two sends, two results.
C6_Witness ==
    /\ op.kind = "burn" /\ op.pc = "done" /\ op.ret.success
    /\ Len(op.api) = 6
    /\ Len(Sends(op.net)) = 2
    /\ Len(op.ret.result) = 2

\* ----------------------------------------------- reading the log of a batch
IsCall(e) == e.ev = "call"
IsReturn(e) == e.ev = "return"
Calls(log) == SelectSeq(log, IsCall)
Returns(log) == SelectSeq(log, IsReturn)

\* ------------------------------------------------------------------------ C8
\* C8: in batchDistributeSOL, batchMixSOL, batchTransfer and batchBurnToken,
\* when the operation of item (or group) i is the first to return
\* success:false, that return is the last thing the batch does: items 1..i
\* and no others were attempted, in order, and the batch has returned
\* success:false with results equal to the results of items 1..i-1 in order.
C8_FirstFailureStopsBatch ==
    LET calls == Calls(bt.log)
        rets  == Returns(bt.log)
    IN  \A i \in DOMAIN rets :
            (/\ bt.kind \in BatchKinds
             /\ ~rets[i].ret.success /\ \A k \in 1..(i - 1) : rets[k].ret.success) =>
                /\ Len(calls) = i /\ Len(rets) = i
                /\ \A k \in 1..i : calls[k].item = k /\ rets[k].item = k
                /\ bt.log[Len(bt.log)] = rets[i]
                /\ bt.pc = "done"
                /\ bt.ret.state = "returned" /\ ~bt.ret.success /\ bt.ret.hasResults
                /\ bt.ret.results = [k \in 1..(i - 1) |-> rets[k].ret.result]

\* batchTransfer has failed at its third transfer and returned the two
\* different results of the first two.
C8_Witness ==
    /\ bt.kind = "batchTransfer" /\ bt.pc = "done" /\ ~bt.ret.success
    /\ Len(Returns(bt.log)) = 3
    /\ ~Returns(bt.log)[3].ret.success
    /\ Len(bt.ret.results) = 2
    /\ bt.ret.results[1] # bt.ret.results[2]

\* ------------------------------------------------------------------------ C9
\* C9: batchDistributeSOL calls distributeSOL for consecutive groups of the
\* recipient list in input order, group k being recipients 3k-2..3k cut off
\* at the end of the list; a pause of 3000 ms lies between the return of one
\* group and the call for the next (the call is missing only while the pause
\* lasts), and nowhere else; on full success
\* ceil(n/3) calls were made and the results have one entry per group, in
\* group order.
C9_GroupsOfThree ==
    bt.kind = "batchDistribute" =>
        LET n     == Len(bt.items)
            calls == Calls(bt.log)
            rets  == Returns(bt.log)
        IN  /\ \A k \in DOMAIN calls :
                  /\ calls[k].item = k
                  /\ calls[k].wallets =
                        SubSeq(ItemWallets(bt.items), 3 * k - 2, Min(3 * k, n))
            /\ \A p \in DOMAIN bt.log :
                  /\ bt.log[p].ev = "delay" =>
                        /\ bt.log[p].ms = 3000
                        /\ p > 1 /\ bt.log[p - 1].ev = "return"
                        /\ IF p < Len(bt.log) THEN bt.log[p + 1].ev = "call"
                           ELSE bt.pc = "pause"
                  /\ (bt.log[p].ev = "call" /\ p > 1) => bt.log[p - 1].ev = "delay"
            /\ (bt.pc = "done" /\ bt.ret.success) =>
                  /\ Len(calls) = CeilDiv(n, 3)
                  /\ Len(rets) = CeilDiv(n, 3)
                  /\ Len(bt.ret.results) = CeilDiv(n, 3)
                  /\ \A k \in DOMAIN rets : bt.ret.results[k] = rets[k].ret.result

\* Seven recipients went through in groups of 3, 3 and 1 with two pauses.
C9_Witness ==
    /\ bt.kind = "batchDistribute" /\ bt.pc = "done" /\ bt.ret.success
    /\ Len(bt.items) = 7
    /\ Len(Calls(bt.log)) = 3
    /\ Len(Calls(bt.log)[1].wallets) = 3
    /\ Len(Calls(bt.log)[2].wallets) = 3
    /\ Len(Calls(bt.log)[3].wallets) = 1
    /\ Len(bt.log) = 8
    /\ Len(bt.ret.results) = 3

\* ----------------------------------------------------------------------- C10
\* C10: no public method throws; in particular every validator returns a
\* {valid, ...} object for every input, malformed private keys and missing
\* fields included.
C10_ValidatorsNeverThrow ==
    valRet.state = "returned" => ~valRet.out.threw

\* ----------------------------------------------------------------------- C11
\* C11: an orchestrator returns success:true only if the remote API returned
\* at least one transaction and at least one bundle was sent.
C11_SuccessNeedsTransactions ==
    (op.pc = "done" /\ op.ret.state = "returned" /\ op.ret.success) =>
        /\ Len(op.api) >= 1
        /\ SendCount(op.net) >= 1

\* ----------------------------------------------------------------------- C12
SellKinds == {"sellSingle", "sellBatch"}

SellValidation(o) ==
    validateTokenSellInputs(o.in.wallets, o.in.token, o.in.number, o.in.protocol)

RangeError == "Invalid sell percentage (must be between 1-100)"

\* sellTokenSingle / sellTokenBatch called with a bad config: success:false
\* carrying the validator's error, and no network call.
RejectedLocally(o, validation) ==
    /\ o.pc = "done"
    /\ o.net = <<>>
    /\ o.ret.state = "returned" /\ ~o.ret.success
    /\ o.ret.error = validation.error

\* C12 as stated: for every sellPercent that is NaN, <= 0 or > 100,
\* validateTokenSellInputs returns valid:false with the error naming the
\* range 1-100, and sellTokenSingle and sellTokenBatch return success:false
\* without a network call.
C12_SellPercentErrorNamesRange ==
    (op.kind \in SellKinds /\ OutOfPercentRange(op.in.number)) =>
        /\ SellValidation(op) = Invalid(RangeError)
        /\ RejectedLocally(op, SellValidation(op))

\* C12 amended: the validator returns valid:false for every such sellPercent;
\* its error names the range 1-100 when the token address is non-empty and
\* is 'Invalid token address' when the token address is empty (checked
\* first); both orchestrators return success:false with that error without a
\* network call.
C12_SellPercentRejected ==
    (op.kind \in SellKinds /\ OutOfPercentRange(op.in.number)) =>
        /\ SellValidation(op) =
              Invalid(IF op.in.token = "" THEN "Invalid token address" ELSE RangeError)
        /\ RejectedLocally(op, SellValidation(op))

\* sellTokenBatch with sellPercent = 150 and everything else in order
C12_Witness ==
    /\ op.kind = "sellBatch" /\ op.pc = "done"
    /\ op.in.number = Num(150)
    /\ op.in.token = "valid" /\ op.in.protocol = "pumpfun"
    /\ Len(op.in.wallets) = 2
    /\ \A i \in DOMAIN op.in.wallets : ~KeypairThrows(op.in.wallets[i].privateKey)
    /\ op.net = <<>>
    /\ ~op.ret.success /\ op.ret.error = RangeError

\* ----------------------------------------------------------------------- C13
BuyKinds == {"buySingle", "buyBatch"}

BuyValidation(o) ==
    validateTokenBuyInputs(o.in.wallets, o.in.token, o.in.number, o.in.protocol)

\* C13: for every wallet list in which some wallet's private key does not
\* decode to a valid keypair, validateTokenBuyInputs returns valid:false, and
\* buyTokenSingle / buyTokenBatch return success:false before any fetch.
C13_BadKeyRejectedBeforeFetch ==
    (/\ op.kind \in BuyKinds
     /\ \E i \in DOMAIN op.in.wallets : KeypairThrows(op.in.wallets[i].privateKey)) =>
        /\ ~BuyValidation(op).threw /\ ~BuyValidation(op).valid
        /\ op.pc = "done"
        /\ op.net = <<>>
        /\ op.ret.state = "returned" /\ ~op.ret.success

\* ----------------------------------------------------------------------- C14
\* C14: createKeypairFromPrivateKey(s) succeeds exactly when s decodes to 32
\* bytes (a seed, expanded to the full keypair) or to 64 bytes (the full
\* keypair); for every other decoded length it throws.
C14_SeedOrFullKeyAccepted ==
    \A i \in DOMAIN kpLog :
        kpLog[i].threw <=> DecodedLen(kpLog[i].privateKey) \notin {32, 64}

\* ----------------------------------------------------------------------- C15
\* What validateTransferInputs says of the arguments as the caller of
\* sdk.transferToken means them.
IntendedTransferValid ==
    /\ validateTransferInputs(sdkCall.senderWallet, sdkCall.recipientAddress,
                              sdkCall.amount, sdkCall.tokenMint).valid
    /\ ~KeypairThrows(sdkCall.senderWallet.privateKey)

\* C15: sdk.transferToken(senderWallet, recipientAddress, tokenMint, amount)
\* requests a transfer of amount of the token tokenMint: a well-formed call
\* issues a request, and every request it issues has tokenAddress = tokenMint
\* and amount = amount.
C15_TransferTokenRequestsMintAndAmount ==
    sdkCall.method = "transferToken" =>
        /\ \A p \in DOMAIN op.net :
              op.net[p].ev = "fetch" =>
                 /\ op.net[p].payload.tokenAddress = sdkCall.tokenMint
                 /\ op.net[p].payload.amount = sdkCall.amount
        /\ IntendedTransferValid => FetchCount(op.net) >= 1

\* ----------------------------------------------------------------------- C16
ConfiguredCeiling == IF rl.config = 0 THEN MAX_BUNDLES_PER_SECOND ELSE rl.config

\* C16: the ceiling checkRateLimit enforces is the maxBundlesPerSecond the SDK
\* was configured with, and 2 when nothing is configured; at most that many
\* acquires are counted in a window.
C16_CeilingIsConfigured ==
    /\ rl.maxBundlesPerSecond = ConfiguredCeiling
    /\ (rl.called /\ rl.last.configured # 0 /\ ~rl.last.suspended
          /\ rl.last.elapsed < WINDOW_MS) =>
             rl.last.countBefore < rl.last.configured

\* ----------------------------------------------------------------------- C17
\* C17: no request body an orchestrator posts to the API or to the broadcast
\* endpoint carries a wallet's private key; the bodies hold public addresses,
\* amounts, parameters and signed transactions only.
C17_NoPrivateKeyInRequests ==
    \A p \in DOMAIN op.net :
        /\ op.net[p].ev = "fetch" =>
              \A j \in DOMAIN op.net[p].payload.recipients :
                  ~op.net[p].payload.recipients[j].hasPrivateKey
        /\ op.net[p].ev = "send" => op.net[p].payload = NoPayload

\* ----------------------------------------------------------------------- C18
\* C18: in every orchestrator each call of sendBundle is preceded by its own
\* completed checkRateLimit, after the previous send.
C18_AcquireBeforeEverySend ==
    \A p \in DOMAIN op.net :
        op.net[p].ev = "send" => (p > 1 /\ op.net[p - 1].ev = "acquire")

\* ----------------------------------------------------------------------- C19
\* C19: for one sequential caller and non-decreasing times, count never
\* exceeds maxBundlesPerSecond, it is between 1 and maxBundlesPerSecond
\* whenever checkRateLimit has returned, and a call that arrives with count at
\* the ceiling inside an unexpired window suspends instead of incrementing.
C19_CountWithinCeiling ==
    /\ rl.count <= rl.maxBundlesPerSecond
    /\ (rl.called /\ rl.pc = "idle") =>
          /\ rl.last.returned
          /\ rl.count >= 1
    /\ (rl.called /\ rl.last.countBefore = rl.maxBundlesPerSecond
          /\ rl.last.elapsed < WINDOW_MS) =>
          /\ rl.last.suspended
          /\ rl.pc = "waiting" => rl.count = rl.last.countBefore

\* The third call of an immediate burst is suspended with the window full.
C19_Witness ==
    /\ rl.pc = "waiting"
    /\ rl.count = MAX_BUNDLES_PER_SECOND
    /\ rl.last.countBefore = MAX_BUNDLES_PER_SECOND
    /\ rl.last.calledAt = 0

\* ----------------------------------------------------------------------- C20
AtCeilingInWindow ==
    /\ rl.called
    /\ rl.last.countBefore = rl.maxBundlesPerSecond
    /\ rl.last.elapsed < WINDOW_MS

SuspendedForTheRestOfTheWindow ==
    AtCeilingInWindow =>
        /\ rl.last.suspended
        /\ rl.last.waitTime = WINDOW_MS - rl.last.elapsed
        /\ rl.last.waitTime > 0 /\ rl.last.waitTime <= WINDOW_MS
        /\ rl.pc = "waiting" => ~rl.last.returned
        /\ rl.last.returned =>
              /\ rl.last.returnedAt >= rl.last.calledAt + rl.last.waitTime
              /\ rl.count = 1
              /\ rl.lastReset = rl.last.returnedAt

\* C20: a call of checkRateLimit with count at the ceiling and less than
\* 1000 ms since lastReset suspends for 1000 - elapsed ms, a duration > 0 and
\* <= 1000 ms, always eventually returns, and on return count is exactly 1
\* and lastReset is the time of return.
C20_SuspendedCallReturnsWithCountOne ==
    /\ []SuspendedForTheRestOfTheWindow
    /\ (rl.pc = "waiting") ~> (rl.pc = "idle" /\ rl.last.returned)

\* A call 250 ms into a full window has waited 750 ms and returned.
C20_Witness ==
    /\ rl.pc = "idle"
    /\ rl.last.suspended /\ rl.last.returned
    /\ rl.last.elapsed = 250 /\ rl.last.waitTime = 750
    /\ rl.last.returnedAt = rl.last.calledAt + 750
    /\ rl.count = 1 /\ rl.lastReset = rl.last.returnedAt

\* C24: the keypairs handed to transaction.sign are, for the first K static
\* account keys in message order, the sender's keypair where the key is the
\* sender's address, else the registry's keypair where the registry has the
\* key, else nothing; when that leaves nothing, the sender's keypair alone.
SelectedPositions(tx, senderKeypair, recipientKeypairs) ==
    {i \in 1..tx.numRequiredSignatures :
        /\ i <= Len(tx.staticAccountKeys)
        /\ \/ tx.staticAccountKeys[i] = senderKeypair.publicKey
           \/ tx.staticAccountKeys[i] \in DOMAIN recipientKeypairs}

NthPosition(positions, n) ==
    CHOOSE i \in positions : Cardinality({j \in positions : j < i}) = n - 1

ExpectedSigners(tx, senderKeypair, recipientKeypairs) ==
    LET positions == SelectedPositions(tx, senderKeypair, recipientKeypairs)
    IN  IF positions = {} THEN <<senderKeypair>>
        ELSE [n \in 1..Cardinality(positions) |->
                LET key == tx.staticAccountKeys[NthPosition(positions, n)]
                IN  IF key = senderKeypair.publicKey THEN senderKeypair
                    ELSE recipientKeypairs[key]]

C24_SignersAreSelectedInMessageOrder ==
    sgOut.state = "returned" =>
        \A i \in DOMAIN sgBlobs :
            sgOut.passed[i].reached =>
                sgOut.passed[i].signers =
                    ExpectedSigners(Deserialize(sgBlobs[i]), sgSender, sgRegistry)

\* A transaction with two required signers, the second the sender and the
\* first taken from the registry.
C24_Witness ==
    /\ sgOut.state = "returned"
    /\ \E i \in DOMAIN sgBlobs :
          /\ sgOut.passed[i].reached
          /\ Len(sgOut.passed[i].signers) = 2
          /\ sgOut.passed[i].signers[2] = sgSender
          /\ sgOut.passed[i].signers[1].publicKey # sgSender.publicKey

\* C25: completeTransactionSigning leaves every filled slot whose key was not
\* selected as it was, and leaves the message and the number of slots alone.
SelectedKeys(tx, senderKeypair, recipientKeypairs) ==
    LET signers == ExpectedSigners(tx, senderKeypair, recipientKeypairs)
    IN  {signers[s].publicKey : s \in DOMAIN signers}

C25_OnlySelectedSlotsChange ==
    (sgOut.state = "returned" /\ ~sgOut.threw) =>
        \A i \in DOMAIN sgBlobs :
            LET before == Deserialize(sgBlobs[i])
                after  == Deserialize(sgOut.txs[i])
            IN  /\ WellFormed(sgOut.txs[i])
                /\ Len(after.signatures) = Len(before.signatures)
                /\ after.numRequiredSignatures = before.numRequiredSignatures
                /\ after.staticAccountKeys = before.staticAccountKeys
                /\ after.body = before.body
                /\ \A slot \in DOMAIN before.signatures :
                      (/\ before.signatures[slot] # 0
                       /\ slot <= Len(before.staticAccountKeys)
                       /\ before.staticAccountKeys[slot]
                             \notin SelectedKeys(before, sgSender, sgRegistry))
                          => after.signatures[slot] = before.signatures[slot]

\* A transaction the server signed in a slot nobody here holds a key for,
\* with another slot that this call filled.
C25_Witness ==
    /\ sgOut.state = "returned"
    /\ ~sgOut.threw
    /\ \E i \in DOMAIN sgBlobs :
          LET before == Deserialize(sgBlobs[i])
              after  == Deserialize(sgOut.txs[i])
          IN  \E kept, filled \in DOMAIN before.signatures :
                 /\ before.signatures[kept] # 0
                 /\ kept <= Len(before.staticAccountKeys)
                 /\ before.staticAccountKeys[kept] \notin SelectedKeys(before, sgSender, sgRegistry)
                 /\ after.signatures[kept] = before.signatures[kept]
                 /\ before.signatures[filled] = 0
                 /\ after.signatures[filled] # 0

\* C26: signing the output of completeTransactionSigning again, with the same
\* sender and registry, succeeds and gives the same bytes.
C26_SigningTwiceChangesNothing ==
    sgOut.again.state = "returned" =>
        /\ ~sgOut.again.threw
        /\ sgOut.again.txs = sgOut.txs

\* The second pass ran over a transaction whose slot the first pass filled.
C26_Witness ==
    /\ sgOut.again.state = "returned"
    /\ ~sgOut.again.threw
    /\ \E i \in DOMAIN sgBlobs :
          /\ sgOut.txs[i] # sgBlobs[i]
          /\ sgOut.again.txs[i] = sgOut.txs[i]

\* C27: in every orchestrator, when some transaction the API returned cannot be
\* decoded or signed, no bundle of the operation is sent, before or after the
\* failing transaction, and the orchestrator returns success:false.
SigningFails(o) ==
    /\ o.kind \in OpKinds
    /\ o.kind \in BundleKinds => Len(o.in.wallets) > 0
    /\ PrimaryAddress(o) # 0
    /\ ~KeypairMapThrows(o.in.wallets)
    /\ \E i \in DOMAIN o.api :
          SignOneThrows(o.api[i], OpSender(o), OpRegistry(o))

C27_SigningIsAllOrNothing ==
    SigningFails(op) =>
        /\ SendCount(op.net) = 0
        /\ op.pc = "done" => ~op.ret.success

\* C28: every transaction list an orchestrator passes to sendBundle holds at
\* least 1 and at most 5 transactions, whatever shape the API's answer had.
C28_SentListsHoldOneToFive ==
    \A i \in DOMAIN op.net :
        op.net[i].ev = "send" =>
            /\ Len(op.net[i].txs) >= 1
            /\ Len(op.net[i].txs) <= MAX_TRANSACTIONS_PER_BUNDLE

\* C30: every sell request sellTokenBatch posts carries a percentage that
\* passes the range check validateTokenSellInputs applies to sellPercent; a
\* custom percentage that does not pass it ends the call before any request.
C30_SellRequestsCarryCheckedPercentages ==
    op.kind = "sellBatch" =>
        \A i \in DOMAIN op.net :
            op.net[i].ev = "fetch" => ~OutOfPercentRange(op.net[i].payload.number)

\* C29: a batch orchestrator validates all its items before it runs any of
\* them: with an item its validator rejects, the batch makes no network call
\* for any item and returns success:false.
InvalidItem(b, i) ==
    LET validation == Validation(InnerKind(b.kind), CycleArguments(b, i))
    IN  validation.threw \/ ~validation.valid

HasInvalidItem(b) ==
    /\ b.kind \in BatchKinds
    /\ \E i \in 1..NumCycles(b) : InvalidItem(b, i)

C29_BatchValidatesBeforeRunning ==
    HasInvalidItem(bt) =>
        /\ op.net = <<>>
        /\ bt.pc = "done"
        /\ bt.ret.state = "returned" /\ ~bt.ret.success

\* ---------------------------------------------------- reading the return log
ReturnsOf(l, m) == {i \in DOMAIN l.log : l.log[i].module = m}

\* The values lastReset of module m has taken
WindowStarts(l, m) == {0} \cup {l.log[i].window : i \in ReturnsOf(l, m)}

ReturnsWithin(l, among, from) ==
    {i \in among : l.log[i].at >= from /\ l.log[i].at < from + WINDOW_MS}

\* C21: with two or more tasks interleaving at the await of checkRateLimit,
\* between any value taken by lastReset and 1000 ms after it at most
\* maxBundlesPerSecond calls of that limiter return.
C21_CeilingHoldsForInterleavedTasks ==
    \A m \in Modules : \A w \in WindowStarts(lim, m) :
        Cardinality(ReturnsWithin(lim, ReturnsOf(lim, m), w))
            <= lim.state[m].maxBundlesPerSecond

\* C22: for one sequential caller, in every interval of 1000 ms of real time
\* at most maxBundlesPerSecond calls of checkRateLimit return.
C22_SlidingWindow ==
    \A m \in Modules :
        Cardinality(lim.callers[m]) <= 1 =>
            \A i \in ReturnsOf(lim, m) :
                Cardinality(ReturnsWithin(lim, ReturnsOf(lim, m), lim.log[i].at))
                    <= lim.state[m].maxBundlesPerSecond

\* C23: buy, sell and create count their acquires in one shared window: they
\* increment the same counter, and across the three kinds at most
\* maxBundlesPerSecond acquires are granted per window.
AllCallers(l) == UNION {l.callers[m] : m \in Modules}

C23_OneSharedWindow ==
    Cardinality(AllCallers(lim)) <= 1 =>
        /\ \A m, n \in Modules : lim.state[m].count = lim.state[n].count
        /\ \A m \in Modules : \A w \in WindowStarts(lim, m) :
              Cardinality(ReturnsWithin(lim, DOMAIN lim.log, w)) <= MAX_BUNDLES_PER_SECOND


====
